---- MODULE Spec2Model ----
(***************************************************************************)
(* Verification model of the recipe manager's unit-normalisation and       *)
(* cost-calculation pipeline (services/cost.py, services/shopping.py).     *)
(*                                                                         *)
(* Numbers.  The program computes with Python floats.  The model computes  *)
(* with exact decimal fixed point: every quantity, price and amount is an  *)
(* integer count of 10^-4 (four decimals is the finest rounding the code   *)
(* performs).  Products and quotients are kept exact until the code calls  *)
(* round(), which is modelled as round-half-to-even on the exact value.    *)
(* Binary floating-point representation error is outside the model.        *)
(* Optional numeric columns (portion_ml, portion_g, pkg_count,             *)
(* piece_weight_g, min_purchase) hold 0 when unset: the code only ever     *)
(* tests them for truthiness, and None and 0.0 are both falsy.             *)
(***************************************************************************)
EXTENDS Integers, Sequences, FiniteSets, Bags, TLC

VARIABLES
    conv,   \* a call of convert_to_base_unit: arguments, position, result
    db,     \* the stored rows: ingredients, recipes with their lines, pantry, use-up
    shop,   \* a call of generate_shopping_list: arguments, position, result
    units,  \* a call of convert_unit and the call converting its result back
    parse,  \* a call of one of the parsers or formatters of services/parsing.py
    match,  \* a call of normalize_ingredient_name or find_ingredient_match
    web     \* the last request served by a route of app.py

vars == <<conv, db, shop, units, parse, match, web>>

(***************************************************************************)
(* Fixed-point arithmetic                                                  *)
(***************************************************************************)
\* round(x, 4): the finest rounding in the code
DP4 == 4
\* round(x, 2)
DP2 == 2

RECURSIVE Pow10(_)
Pow10(n) == IF n = 0 THEN 1 ELSE 10 * Pow10(n - 1)

\* one unit (1.0) in fixed point
Scale == Pow10(DP4)

\* <<quotient, remainder>> of x * a divided by b (x, a >= 0, b > 0), computed
\* digit by digit so that no intermediate product leaves the integer range
RECURSIVE MulDiv(_, _, _)
MulDiv(x, a, b) ==
    IF x = 0 THEN <<0, 0>>
    ELSE LET p == MulDiv(x \div 10, a, b)
             t == 10 * p[2] + (x % 10) * a
         IN  <<10 * p[1] + (t \div b), t % b>>

\* round-half-to-even of quotient + remainder / b
RoundHalfEven(qr, b) ==
    IF 2 * qr[2] > b THEN qr[1] + 1
    ELSE IF 2 * qr[2] < b THEN qr[1]
    ELSE IF qr[1] % 2 = 0 THEN qr[1] ELSE qr[1] + 1

\* Python round(x * a / b, dp) for fixed-point x and the ratio a / b;
\* the result is fixed point again
RoundRatio(x, a, b, dp) ==
    LET k == Pow10(DP4 - dp)
    IN  k * RoundHalfEven(MulDiv(x, a, b * k), b * k)

(***************************************************************************)
(* Strings: str.upper(), substring test                                    *)
(***************************************************************************)
LowerChars == "abcdefghijklmnopqrstuvwxyz"
UpperChars == "ABCDEFGHIJKLMNOPQRSTUVWXYZ"

Char(s, i) == SubSeq(s, i, i)

\* the map of characters that takes each character of 'from' to the one at
\* the same place in 'to'
CharMap(from, to) ==
    [c \in {Char(from, i) : i \in 1..Len(from)} |->
        Char(to, CHOOSE i \in 1..Len(from) : Char(from, i) = c)]

LowerToUpper == CharMap(LowerChars, UpperChars)
UpperToLower == CharMap(UpperChars, LowerChars)

UpperChar(c) == IF c \in DOMAIN LowerToUpper THEN LowerToUpper[c] ELSE c

LowerChar(c) == IF c \in DOMAIN UpperToLower THEN UpperToLower[c] ELSE c

RECURSIVE Upper(_)
Upper(s) == IF Len(s) = 0 THEN "" ELSE UpperChar(Char(s, 1)) \o Upper(SubSeq(s, 2, Len(s)))

RECURSIVE Lower(_)
Lower(s) == IF Len(s) = 0 THEN "" ELSE LowerChar(Char(s, 1)) \o Lower(SubSeq(s, 2, Len(s)))

\* Python: key in s
Contains(key, s) ==
    \E i \in 1..(Len(s) - Len(key) + 1) : SubSeq(s, i, i + Len(key) - 1) = key

(***************************************************************************)
(* constants/units.py, constants/ingredients.py                            *)
(***************************************************************************)
WEIGHT_UNITS == {"G", "KG", "OZ", "LB"}
VOLUME_UNITS == {"ML", "L", "CUP", "TBSP", "TSP"}

\* grams per unit, fixed point
WEIGHT_TO_G == [u \in WEIGHT_UNITS |->
    CASE u = "G" -> 10000 [] u = "KG" -> 10000000
      [] u = "OZ" -> 283495 [] u = "LB" -> 4535920]

\* millilitres per unit, fixed point
VOLUME_TO_ML == [u \in VOLUME_UNITS |->
    CASE u = "ML" -> 10000 [] u = "L" -> 10000000 [] u = "CUP" -> 2365880
      [] u = "TBSP" -> 147870 [] u = "TSP" -> 49290]

\* average weight of one piece in whole grams, in the table's order
AVERAGE_WEIGHTS == <<
    <<"TOMATO", 150>>, <<"ONION", 225>>, <<"RED ONION", 225>>,
    <<"YELLOW ONION", 225>>, <<"WHITE ONION", 225>>, <<"GREEN ONION", 30>>,
    <<"SCALLION", 30>>, <<"CARROT", 70>>, <<"CELERY", 45>>, <<"POTATO", 225>>,
    <<"RUSSET POTATO", 225>>, <<"YELLOW POTATO", 170>>, <<"RED POTATO", 170>>,
    <<"SWEET POTATO", 200>>, <<"BELL PEPPER", 150>>, <<"RED PEPPER", 150>>,
    <<"YELLOW PEPPER", 150>>, <<"GREEN PEPPER", 150>>, <<"JALAPENO", 15>>,
    <<"CUCUMBER", 300>>, <<"ZUCCHINI", 200>>, <<"MUSHROOM", 18>>,
    <<"GARLIC", 5>>, <<"GINGER", 30>>, <<"BROCCOLI", 600>>,
    <<"CAULIFLOWER", 900>>, <<"CABBAGE", 900>>, <<"LETTUCE", 300>>,
    <<"ROMAINE", 300>>, <<"SPINACH", 30>>, <<"KALE", 30>>, <<"AVOCADO", 200>>,
    <<"CORN", 200>>, <<"LEMON", 85>>, <<"LIME", 65>>, <<"ORANGE", 180>>,
    <<"APPLE", 180>>, <<"BANANA", 120>>, <<"EGG", 50>>,
    <<"CHICKEN BREAST", 225>>, <<"CHICKEN THIGH", 115>>, <<"BACON", 30>>,
    <<"SAUSAGE", 100>>, <<"BUTTER", 14>>, <<"BREAD", 30>>,
    <<"TORTILLA", 45>>, <<"BUN", 60>>
>>

(***************************************************************************)
(* services/cost.py                                                        *)
(***************************************************************************)
\* a Python call either returns a number or raises
Return(v) == [raised |-> FALSE, value |-> v]
Raise == [raised |-> TRUE, value |-> 0]

\* round(x * a / b, dp) where the division is Python's: a zero divisor raises
PyRoundDiv(x, a, b, dp) ==
    IF b = 0 THEN Raise ELSE Return(RoundRatio(x, a, b, dp))

\* index of the first table key contained in name_upper, 0 when there is none
FirstContained(name_upper) ==
    IF \E i \in 1..Len(AVERAGE_WEIGHTS) : Contains(AVERAGE_WEIGHTS[i][1], name_upper)
    THEN CHOOSE i \in 1..Len(AVERAGE_WEIGHTS) :
            /\ Contains(AVERAGE_WEIGHTS[i][1], name_upper)
            /\ \A j \in 1..(i - 1) : ~Contains(AVERAGE_WEIGHTS[j][1], name_upper)
    ELSE 0

\* average weight in grams (fixed point) by ingredient name, 0 for None
GetAverageWeight(ingredient_name) ==
    IF ingredient_name = "" THEN 0
    ELSE LET name_upper == Upper(ingredient_name)
         IN  IF \E i \in 1..Len(AVERAGE_WEIGHTS) : AVERAGE_WEIGHTS[i][1] = name_upper
             THEN LET i == CHOOSE i \in 1..Len(AVERAGE_WEIGHTS) :
                                AVERAGE_WEIGHTS[i][1] = name_upper
                  IN  AVERAGE_WEIGHTS[i][2] * Scale
             ELSE IF FirstContained(name_upper) # 0
                  THEN AVERAGE_WEIGHTS[FirstContained(name_upper)][2] * Scale
                  ELSE 0

\* GramsToBase rounding every base unit to 2 decimals
GramsToBaseRound2(qty, per_unit, base_unit) ==
    CASE base_unit = "G"  -> PyRoundDiv(qty, per_unit, Scale, DP2)
      [] base_unit = "KG" -> PyRoundDiv(qty, per_unit, 1000 * Scale, DP2)
      [] base_unit = "LB" -> PyRoundDiv(qty, per_unit, 4535920, DP2)
      [] base_unit = "OZ" -> PyRoundDiv(qty, per_unit, 283495, DP2)

\* grams = qty * per_unit, expressed in the weight base unit with its rounding
GramsToBase(qty, per_unit, base_unit) ==
    CASE base_unit = "G"  -> PyRoundDiv(qty, per_unit, Scale, DP2)
      [] base_unit = "KG" -> PyRoundDiv(qty, per_unit, 1000 * Scale, DP4)
      [] base_unit = "LB" -> PyRoundDiv(qty, per_unit, 4535920, DP4)
      [] base_unit = "OZ" -> PyRoundDiv(qty, per_unit, 283495, DP2)

\* ml = qty * per_unit, expressed in the volume base unit with its rounding
MlToBase(qty, per_unit, base_unit) ==
    CASE base_unit = "ML"   -> PyRoundDiv(qty, per_unit, Scale, DP2)
      [] base_unit = "L"    -> PyRoundDiv(qty, per_unit, 1000 * Scale, DP4)
      [] base_unit = "CUP"  -> PyRoundDiv(qty, per_unit, 2365880, DP4)
      [] base_unit = "TBSP" -> PyRoundDiv(qty, per_unit, 147870, DP2)
      [] base_unit = "TSP"  -> PyRoundDiv(qty, per_unit, 49290, DP2)

\* PieceWeight looking only at the average-weight table
PieceWeightTableOnly(ingredient) == GetAverageWeight(ingredient.name)

\* the piece weight the WEIGHT formula uses for count units
PieceWeight(ingredient) ==
    IF ingredient.piece_weight_g # 0 THEN ingredient.piece_weight_g
    ELSE GetAverageWeight(ingredient.name)

ConvertWeight(qty, from_unit, base_unit, ingredient) ==
    IF from_unit \in DOMAIN WEIGHT_TO_G /\ base_unit \in WEIGHT_UNITS
    THEN GramsToBase(qty, WEIGHT_TO_G[from_unit], base_unit)
    ELSE IF /\ from_unit \notin DOMAIN WEIGHT_TO_G
            /\ from_unit \notin DOMAIN VOLUME_TO_ML
            /\ PieceWeight(ingredient) # 0
            /\ base_unit \in WEIGHT_UNITS
         THEN GramsToBase(qty, PieceWeight(ingredient), base_unit)
         ELSE Return(qty)

ConvertVolume(qty, from_unit, base_unit) ==
    IF from_unit \in DOMAIN VOLUME_TO_ML /\ base_unit \in VOLUME_UNITS
    THEN MlToBase(qty, VOLUME_TO_ML[from_unit], base_unit)
    ELSE Return(qty)

\* ConvertPortion dividing by portion_ml without testing that it is set
ConvertPortionUnguarded(qty, from_unit, ingredient) ==
    IF from_unit \in DOMAIN VOLUME_TO_ML
    THEN PyRoundDiv(qty, VOLUME_TO_ML[from_unit], ingredient.portion_ml, DP4)
    ELSE IF from_unit \in DOMAIN WEIGHT_TO_G /\ ingredient.portion_g # 0
         THEN PyRoundDiv(qty, WEIGHT_TO_G[from_unit], ingredient.portion_g, DP4)
         ELSE Return(qty)

ConvertPortion(qty, from_unit, ingredient) ==
    IF from_unit \in DOMAIN VOLUME_TO_ML /\ ingredient.portion_ml # 0
    THEN PyRoundDiv(qty, VOLUME_TO_ML[from_unit], ingredient.portion_ml, DP4)
    ELSE IF from_unit \in DOMAIN WEIGHT_TO_G /\ ingredient.portion_g # 0
         THEN PyRoundDiv(qty, WEIGHT_TO_G[from_unit], ingredient.portion_g, DP4)
         ELSE Return(qty)

ConvertPackage(qty, from_unit, ingredient) ==
    IF /\ ingredient.pkg_count # 0
       /\ ingredient.pkg_count > 0
       /\ from_unit \notin WEIGHT_UNITS
       /\ from_unit \notin VOLUME_UNITS
    THEN PyRoundDiv(qty, Scale, ingredient.pkg_count, DP4)
    ELSE Return(qty)

\* 'x or default' for a string column
OrDefault(s, default) == IF s = "" THEN default ELSE s

\* the formula dispatch of convert_to_base_unit, after the short-circuit
ConvertByFormula(qty, from_unit, base_unit, formula, ingredient) ==
    CASE formula = "WEIGHT"  -> ConvertWeight(qty, from_unit, base_unit, ingredient)
      [] formula = "VOLUME"  -> ConvertVolume(qty, from_unit, base_unit)
      [] formula = "PORTION" -> ConvertPortion(qty, from_unit, ingredient)
      [] formula = "PACKAGE" -> ConvertPackage(qty, from_unit, ingredient)
      [] OTHER               -> Return(qty)

\* convert_to_base_unit with the units-match short-circuit applied to PACKAGE too
ConvertToBaseUnitShortCircuitAll(qty, from_unit_arg, ingredient) ==
    LET formula   == Upper(OrDefault(ingredient.cost_formula, "COUNT"))
        base_unit == Upper(OrDefault(ingredient.base_unit, "EA"))
        from_unit == Upper(OrDefault(from_unit_arg, "EA"))
    IN  IF from_unit = base_unit THEN Return(qty)
        ELSE ConvertByFormula(qty, from_unit, base_unit, formula, ingredient)

\* convert_to_base_unit without the units-match short-circuit
ConvertToBaseUnitNoShortCircuit(qty, from_unit_arg, ingredient) ==
    LET formula   == Upper(OrDefault(ingredient.cost_formula, "COUNT"))
        base_unit == Upper(OrDefault(ingredient.base_unit, "EA"))
        from_unit == Upper(OrDefault(from_unit_arg, "EA"))
    IN  ConvertByFormula(qty, from_unit, base_unit, formula, ingredient)

\* convert_to_base_unit(qty, from_unit, ingredient)
ConvertToBaseUnit(qty, from_unit_arg, ingredient) ==
    LET formula   == Upper(OrDefault(ingredient.cost_formula, "COUNT"))
        base_unit == Upper(OrDefault(ingredient.base_unit, "EA"))
        from_unit == Upper(OrDefault(from_unit_arg, "EA"))
    IN  IF from_unit = base_unit /\ formula # "PACKAGE" THEN Return(qty)
        ELSE ConvertByFormula(qty, from_unit, base_unit, formula, ingredient)

(***************************************************************************)
(* Calls of convert_to_base_unit                                           *)
(***************************************************************************)
\* largest whole quantity a call is made with
MaxQty == 2

\* a quantity with three decimals (0.126), and the whole quantities; none of
\* them puts an exact result on a rounding tie, where a float would differ
SmallQty == (126 * Scale) \div 1000

QtyValues == {SmallQty} \cup {k * Scale : k \in 1..MaxQty}

\* cost_formula column: the five formulas, unset, and a mixed-case spelling
FormulaTokens == {"WEIGHT", "VOLUME", "PORTION", "PACKAGE", "COUNT", "", "Package"}

\* base_unit column
BaseUnitTokens == {"G", "KG", "OZ", "LB", "ML", "L", "CUP", "TBSP", "TSP", "EA", "", "kg"}

\* unit of a recipe line (free-form token)
FromUnitTokens == {"G", "KG", "OZ", "LB", "ML", "L", "CUP", "TBSP", "TSP",
                   "EA", "CLOVE", "", "g", "Ea"}

\* exact table key (twice, one of them also containing the earlier key ONION),
\* keys contained in the name (ONION precedes GREEN ONION), no key
NameTokens == {"Chicken Breast", "Green Onion", "Green Onions", "Saffron"}

ConvIngredients ==
    [name : NameTokens, cost_formula : FormulaTokens, base_unit : BaseUnitTokens,
     piece_weight_g : {0, 225 * Scale}, portion_ml : {0, 250 * Scale},
     portion_g : {0, 113 * Scale}, pkg_count : {0, 0 - Scale, 12 * Scale}]

\* value of the variables a specification does not use
Idle == [pc |-> "idle"]

ConvInit ==
    /\ web = Idle
    /\ db = Idle
    /\ shop = Idle
    /\ units = Idle
    /\ parse = Idle
    /\ match = Idle
    /\ conv \in [pc : {"call"}, qty : QtyValues, from_unit : FromUnitTokens,
              ingredient : ConvIngredients, ret : {Return(0)}]

\* one call of convert_to_base_unit, run to its return
ConvertCall ==
    /\ conv.pc = "call"
    /\ conv' = [conv EXCEPT !.pc = "done",
                            !.ret = ConvertToBaseUnit(conv.qty, conv.from_unit, conv.ingredient)]
    /\ UNCHANGED <<db, shop, units, parse, match, web>>

ConvNext == ConvertCall

SpecConvert == ConvInit /\ [][ConvNext]_vars

(***************************************************************************)
(* services/shopping.py: generate_shopping_list                            *)
(***************************************************************************)
\* subtotal * 0.12
TaxRate == 1200

\* x * y for fixed-point x and y (exact for the quantities and multipliers drawn)
Times(x, y) == MulDiv(x, y, Scale)[1]

\* Python round(x, 2)
Round2(x) == RoundRatio(x, Scale, Scale, DP2)

\* math.ceil(x)
Ceil(x) == IF x % Scale = 0 THEN x ELSE ((x \div Scale) + 1) * Scale

\* characters in code-point order, for comparing the sort keys
CodePointOrder == " ABCDEFGHIJKLMNOPQRSTUVWXYZabcdefghijklmnopqrstuvwxyz"

\* rank of each character in that order
CodePointRank ==
    [c \in {Char(CodePointOrder, i) : i \in 1..Len(CodePointOrder)} |->
        CHOOSE i \in 1..Len(CodePointOrder) : Char(CodePointOrder, i) = c]

CodePoint(c) == CodePointRank[c]

\* Python's s < t for strings
RECURSIVE StrLess(_, _)
StrLess(s, t) ==
    IF Len(t) = 0 THEN FALSE
    ELSE IF Len(s) = 0 THEN TRUE
    ELSE IF Char(s, 1) = Char(t, 1)
         THEN StrLess(SubSeq(s, 2, Len(s)), SubSeq(t, 2, Len(t)))
         ELSE CodePoint(Char(s, 1)) < CodePoint(Char(t, 1))

\* (category, name) of x sorts strictly before that of y
KeyLess(x, y) ==
    \/ StrLess(x.category, y.category)
    \/ x.category = y.category /\ StrLess(x.name, y.name)

\* items.sort(key=...): stable insertion of x into a sorted sequence
RECURSIVE InsertSorted(_, _)
InsertSorted(sorted, x) ==
    IF sorted = <<>> THEN <<x>>
    ELSE IF KeyLess(x, Head(sorted)) THEN <<x>> \o sorted
    ELSE <<Head(sorted)>> \o InsertSorted(Tail(sorted), x)

RECURSIVE SortItems(_)
SortItems(items) ==
    IF items = <<>> THEN <<>>
    ELSE InsertSorted(SortItems(SubSeq(items, 1, Len(items) - 1)), items[Len(items)])

\* PantryIds taking every staple, whatever its have_it
PantryIdsAllStaples(d) ==
    LET staples == {ps.ingredient_id : ps \in d.pantry}
        waters  == {i \in DOMAIN d.ingredients : Lower(d.ingredients[i].name) = "water"}
    IN  IF waters = {} THEN staples
        ELSE staples \cup {CHOOSE i \in waters : \A j \in waters : i <= j}

\* PantryStaple.query.filter_by(have_it=True), plus the ingredient named water
PantryIds(d) ==
    LET staples == {ps.ingredient_id : ps \in {s \in d.pantry : s.have_it}}
        waters  == {i \in DOMAIN d.ingredients : Lower(d.ingredients[i].name) = "water"}
    IN  IF waters = {} THEN staples
        ELSE staples \cup {CHOOSE i \in waters : \A j \in waters : i <= j}

\* position of ingredient_id in the consolidated dict, 0 when absent
EntryIndex(consolidated, ingredient_id) ==
    IF \E k \in 1..Len(consolidated) : consolidated[k].ingredient_id = ingredient_id
    THEN CHOOSE k \in 1..Len(consolidated) : consolidated[k].ingredient_id = ingredient_id
    ELSE 0

\* a new entry of the consolidated dict
NewEntry(d, ri, ing, base_qty) ==
    [ingredient_id |-> ri.ingredient_id,
     name          |-> ing.name,
     qty           |-> base_qty,
     unit          |-> OrDefault(ing.base_unit, "EA"),
     category      |-> ing.category,
     cost_per_unit |-> ing.cost,
     min_purchase  |-> IF ing.min_purchase # 0 THEN ing.min_purchase ELSE Scale,
     is_use_up     |-> ri.ingredient_id \in d.useup]

\* ConsolidateLine storing the latest quantity instead of adding it
ConsolidateLineOverwrite(d, pantry_ids, acc, ri, multiplier) ==
    IF acc.raised THEN acc
    ELSE IF ri.ingredient_id \notin DOMAIN d.ingredients THEN acc
    ELSE IF ri.ingredient_id \in pantry_ids THEN acc
    ELSE LET ing        == d.ingredients[ri.ingredient_id]
             recipe_qty == Times(ri.quantity, multiplier)
             base       == ConvertToBaseUnit(recipe_qty, ri.unit, ing)
             k          == EntryIndex(acc.consolidated, ri.ingredient_id)
         IN  IF base.raised THEN [acc EXCEPT !.raised = TRUE]
             ELSE IF k # 0
             THEN [acc EXCEPT !.consolidated[k].qty = base.value]
             ELSE [acc EXCEPT !.consolidated = Append(@, NewEntry(d, ri, ing, base.value))]

\* the body of 'for ri in recipe.ingredients'
ConsolidateLine(d, pantry_ids, acc, ri, multiplier) ==
    IF acc.raised THEN acc
    ELSE IF ri.ingredient_id \notin DOMAIN d.ingredients THEN acc
    ELSE IF ri.ingredient_id \in pantry_ids THEN acc
    ELSE LET ing        == d.ingredients[ri.ingredient_id]
             recipe_qty == Times(ri.quantity, multiplier)
             base       == ConvertToBaseUnit(recipe_qty, ri.unit, ing)
             k          == EntryIndex(acc.consolidated, ri.ingredient_id)
         IN  IF base.raised THEN [acc EXCEPT !.raised = TRUE]
             ELSE IF k # 0
             THEN [acc EXCEPT !.consolidated[k].qty = @ + base.value]
             ELSE [acc EXCEPT !.consolidated = Append(@, NewEntry(d, ri, ing, base.value))]

RECURSIVE ConsolidateLines(_, _, _, _, _)
ConsolidateLines(d, pantry_ids, acc, lines, multiplier) ==
    IF lines = <<>> THEN acc
    ELSE ConsolidateLines(d, pantry_ids,
                          ConsolidateLine(d, pantry_ids, acc, Head(lines), multiplier),
                          Tail(lines), multiplier)

\* the body of 'for recipe_id in recipe_ids'
ConsolidateRecipe(d, pantry_ids, acc, recipe_id, multipliers) ==
    IF recipe_id \notin DOMAIN d.recipes THEN acc
    ELSE LET multiplier == IF recipe_id \in DOMAIN multipliers
                           THEN multipliers[recipe_id] ELSE Scale
         IN  ConsolidateLines(d, pantry_ids, acc, d.recipes[recipe_id], multiplier)

RECURSIVE Consolidate(_, _, _, _, _)
Consolidate(d, pantry_ids, acc, recipe_ids, multipliers) ==
    IF recipe_ids = <<>> THEN acc
    ELSE Consolidate(d, pantry_ids,
                     ConsolidateRecipe(d, pantry_ids, acc, Head(recipe_ids), multipliers),
                     Tail(recipe_ids), multipliers)

\* PurchaseQty taking whole units first and the minimum purchase after
PurchaseQtyCeilFirst(item) ==
    LET whole == IF item.unit = "EA" THEN Ceil(item.qty) ELSE item.qty
    IN  IF whole < item.min_purchase THEN item.min_purchase ELSE whole

\* quantity to buy: raised to the minimum purchase, then whole units for EA
PurchaseQty(item) ==
    LET raised == IF item.qty < item.min_purchase THEN item.min_purchase ELSE item.qty
    IN  IF item.unit = "EA" THEN Ceil(raised) ELSE raised

\* ShoppingItemOf pricing the quantity as displayed (2 decimals)
ShoppingItemOfDisplayedQty(item) ==
    [ingredient_id |-> item.ingredient_id,
     name          |-> item.name,
     qty           |-> Round2(PurchaseQty(item)),
     unit          |-> item.unit,
     category      |-> item.category,
     cost          |-> RoundRatio(Round2(PurchaseQty(item)), item.cost_per_unit, Scale, DP2),
     is_use_up     |-> item.is_use_up]

\* one element of shopping_items (the display string unit_cost is left out)
ShoppingItemOf(item) ==
    [ingredient_id |-> item.ingredient_id,
     name          |-> item.name,
     qty           |-> Round2(PurchaseQty(item)),
     unit          |-> item.unit,
     category      |-> item.category,
     cost          |-> RoundRatio(PurchaseQty(item), item.cost_per_unit, Scale, DP2),
     is_use_up     |-> item.is_use_up]

RECURSIVE SumCosts(_)
SumCosts(items) == IF items = <<>> THEN 0 ELSE Head(items).cost + SumCosts(Tail(items))

\* generate_shopping_list(recipe_ids, multipliers) on the stored rows d
GenerateShoppingList(d, recipe_ids, multipliers) ==
    LET pantry   == PantryIds(d)
        acc      == Consolidate(d, pantry, [raised |-> FALSE, consolidated |-> <<>>],
                                recipe_ids, multipliers)
        items    == SortItems([k \in 1..Len(acc.consolidated) |->
                                  ShoppingItemOf(acc.consolidated[k])])
        subtotal == SumCosts(items)
    IN  [raised       |-> acc.raised,
         consolidated |-> acc.consolidated,
         items        |-> IF acc.raised THEN <<>> ELSE items,
         subtotal     |-> IF acc.raised THEN 0 ELSE Round2(subtotal),
         tax          |-> IF acc.raised THEN 0 ELSE RoundRatio(subtotal, TaxRate, Scale, DP2),
         total        |-> IF acc.raised THEN 0
                          ELSE RoundRatio(subtotal, Scale + TaxRate, Scale, DP2)]

(***************************************************************************)
(* Calls of generate_shopping_list                                         *)
(***************************************************************************)
\* lines stored over all recipes
MaxLines == 2
\* length of the recipe_ids argument
MaxSelected == 2

Row(name, category, cost_formula, base_unit, cost, min_purchase) ==
    [name |-> name, category |-> category, cost_formula |-> cost_formula,
     base_unit |-> base_unit, cost |-> cost, min_purchase |-> min_purchase,
     piece_weight_g |-> 0, portion_ml |-> 0, portion_g |-> 0, pkg_count |-> 0]

\* the Ingredient rows; names are unique ignoring case, as ingredient_add,
\* ingredient_edit and recipe_import_save check before they store a name
IngredientRows ==
    (1 :> Row("Flour", "Pantry", "WEIGHT", "G", 100, 0))
 @@ (2 :> Row("Chicken Breast", "Meat", "WEIGHT", "LB", 39900, Scale))
 @@ (3 :> Row("Lemon", "Produce", "COUNT", "EA", 5000, (25 * Scale) \div 10))
 @@ (4 :> Row("WATER", "Beverages", "VOLUME", "L", 0, Scale))
 @@ (5 :> Row("Milk", "Dairy", "VOLUME", "L", 12900, Scale \div 8))

\* 6 is the id of a deleted ingredient
Line(ingredient_id, quantity, unit) ==
    [ingredient_id |-> ingredient_id, quantity |-> quantity, unit |-> unit]

LineChoices ==
    { Line(1, 200 * Scale, "G"),
      Line(2, (3 * Scale) \div 10, "LB"),
      Line(3, (21 * Scale) \div 10, "EA"),
      Line(4, Scale, "CUP"),
      Line(5, Scale, "cup"),
      Line(6, Scale, "EA") }

RecipeIds == {1, 2}

\* recipe ids a request may name; 9 is no recipe
RequestedIds == {1, 2, 9}

SeqsOfLen(S, n) == [1..n -> S]

SeqsUpTo(S, n) == UNION {SeqsOfLen(S, k) : k \in 0..n}

\* the lines of recipes 1 and 2, at most MaxLines in all
RecipeStores ==
    UNION {{(1 :> a) @@ (2 :> b) : a \in SeqsOfLen(LineChoices, k),
                                   b \in SeqsUpTo(LineChoices, MaxLines - k)}
           : k \in 0..MaxLines}

\* no staple, or one staple for Flour that is or is not at hand
PantryStores ==
    {{}} \cup {{[ingredient_id |-> 1, have_it |-> h]} : h \in BOOLEAN}

\* multipliers of a request: none, or 0.5 for recipe 1 alone
MultiplierChoices == {<<>>, (1 :> (Scale \div 2))}

ShopInit ==
    /\ web = Idle
    /\ conv = Idle
    /\ units = Idle
    /\ parse = Idle
    /\ match = Idle
    /\ shop = [pc |-> "call"]
    /\ db \in [ingredients : {IngredientRows}, recipes : RecipeStores,
               pantry : PantryStores, useup : {{2}}]

\* one call of generate_shopping_list, run to its return
GenerateCall ==
    /\ shop.pc = "call"
    /\ \E recipe_ids \in SeqsUpTo(RequestedIds, MaxSelected),
          multipliers \in MultiplierChoices :
          shop' = [pc |-> "done", recipe_ids |-> recipe_ids, multipliers |-> multipliers,
                   ret |-> GenerateShoppingList(db, recipe_ids, multipliers)]
    /\ UNCHANGED <<conv, db, units, parse, match, web>>

ShopNext == GenerateCall

SpecShop == ShopInit /\ [][ShopNext]_vars

\* a carton of eggs: PACKAGE, priced per carton of 6, recipes count single eggs
MaxPackageLines == 6

PackageRows ==
    7 :> [Row("Egg", "Dairy", "PACKAGE", "EA", 42000, Scale) EXCEPT !.pkg_count = 6 * Scale]

PackageLineChoices == {Line(7, Scale, "EA"), Line(7, 4 * Scale, "EA")}

\* the lines of recipes 1 and 2, at most MaxPackageLines in all
PackageStores ==
    UNION {{(1 :> a) @@ (2 :> b) : a \in SeqsOfLen(PackageLineChoices, k),
                                   b \in SeqsUpTo(PackageLineChoices, MaxPackageLines - k)}
           : k \in 0..MaxPackageLines}

PackageInit ==
    /\ web = Idle
    /\ conv = Idle
    /\ units = Idle
    /\ parse = Idle
    /\ match = Idle
    /\ shop = [pc |-> "call"]
    /\ db \in [ingredients : {PackageRows}, recipes : PackageStores,
               pantry : {{}}, useup : {{}}]

PackageNext == GenerateCall

SpecPackage == PackageInit /\ [][PackageNext]_vars

(***************************************************************************)
(* services/matching.py: convert_unit                                      *)
(***************************************************************************)
\* unit -> <<base unit, factor>>
UNIT_CONVERSIONS ==
    [u \in {"CUP", "TBSP", "TSP", "L", "ML", "LB", "OZ", "KG", "G"} |->
        CASE u = "CUP"  -> <<"ML", 2365880>>
          [] u = "TBSP" -> <<"ML", 147870>>
          [] u = "TSP"  -> <<"ML", 49290>>
          [] u = "L"    -> <<"ML", 10000000>>
          [] u = "ML"   -> <<"ML", 10000>>
          [] u = "LB"   -> <<"G", 4535920>>
          [] u = "OZ"   -> <<"G", 283495>>
          [] u = "KG"   -> <<"G", 10000000>>
          [] u = "G"    -> <<"G", 10000>>]

RECURSIVE GCD(_, _)
GCD(a, b) == IF b = 0 THEN a ELSE GCD(b, a % b)

\* round(quantity * from_factor / to_factor, dp); the ratio of the two factors
\* is taken in lowest terms, which keeps the exact value
RoundQuotient(quantity, from_factor, to_factor, dp) ==
    LET g == GCD(from_factor, to_factor)
    IN  RoundRatio(quantity, from_factor \div g, to_factor \div g, dp)

\* convert_unit returning from_unit as it was passed on the no-conversion paths
ConvertUnitKeepToken(quantity, from_unit, to_unit) ==
    LET f == Upper(from_unit)
        t == Upper(to_unit)
    IN  IF f = t THEN Return(<<quantity, t>>)
        ELSE IF f \notin DOMAIN UNIT_CONVERSIONS \/ t \notin DOMAIN UNIT_CONVERSIONS
        THEN Return(<<quantity, from_unit>>)
        ELSE IF UNIT_CONVERSIONS[f][1] # UNIT_CONVERSIONS[t][1]
        THEN Return(<<quantity, from_unit>>)
        ELSE Return(<<RoundQuotient(quantity, UNIT_CONVERSIONS[f][2], UNIT_CONVERSIONS[t][2], DP2), t>>)

\* convert_unit(quantity, from_unit, to_unit) -> (quantity, unit)
ConvertUnit(quantity, from_unit, to_unit) ==
    LET f == Upper(from_unit)
        t == Upper(to_unit)
    IN  IF f = t THEN Return(<<quantity, t>>)
        ELSE IF f \notin DOMAIN UNIT_CONVERSIONS \/ t \notin DOMAIN UNIT_CONVERSIONS
        THEN Return(<<quantity, f>>)
        ELSE IF UNIT_CONVERSIONS[f][1] # UNIT_CONVERSIONS[t][1]
        THEN Return(<<quantity, f>>)
        ELSE Return(<<RoundQuotient(quantity, UNIT_CONVERSIONS[f][2], UNIT_CONVERSIONS[t][2], DP2), t>>)

(***************************************************************************)
(* Calls of convert_unit                                                   *)
(***************************************************************************)
UnitQtyValues == {0, SmallQty, 4 * Scale, 100 * Scale} \cup {n * Scale : n \in 1..MaxQty}

UnitTokens == {"G", "KG", "OZ", "LB", "ML", "L", "CUP", "TBSP", "TSP", "EA", "lb", "Cup", "ea"}

UnitInit ==
    /\ web = Idle
    /\ conv = Idle
    /\ db = Idle
    /\ shop = Idle
    /\ parse = Idle
    /\ match = Idle
    /\ units \in [pc : {"call"}, qty : UnitQtyValues, from_unit : UnitTokens, to_unit : UnitTokens]

\* convert_unit(qty, from_unit, to_unit), run to its return
ConvertUnitCall ==
    /\ units.pc = "call"
    /\ units' = [pc |-> "converted", qty |-> units.qty, from_unit |-> units.from_unit,
                 to_unit |-> units.to_unit,
                 ret |-> ConvertUnit(units.qty, units.from_unit, units.to_unit)]
    /\ UNCHANGED <<conv, db, shop, parse, match, web>>

\* the inverse call: the returned quantity converted from to_unit to from_unit
ConvertBackCall ==
    /\ units.pc = "converted"
    /\ units' = [pc |-> "back", qty |-> units.qty, from_unit |-> units.from_unit,
                 to_unit |-> units.to_unit, ret |-> units.ret,
                 back |-> ConvertUnit(units.ret.value[1], units.to_unit, units.from_unit)]
    /\ UNCHANGED <<conv, db, shop, parse, match, web>>

UnitNext == ConvertUnitCall \/ ConvertBackCall

SpecUnit == UnitInit /\ [][UnitNext]_vars

(***************************************************************************)
(* Text.  A text handled by the parsers is a sequence of characters, each  *)
(* character a one-character string; a character that has no literal in   *)
(* this notation is written by its code point ("U+2153").  Chars takes a   *)
(* literal to its sequence of characters and Str takes it back.            *)
(***************************************************************************)
\* F(x), with x evaluated to a value before F is entered
Apply(F(_), x) == CHOOSE r \in {F(v) : v \in {x}} : TRUE

Chars(s) == SubSeq([i \in 1..Len(s) |-> Char(s, i)], 1, Len(s))

RECURSIVE Str(_)
Str(cs) == IF cs = <<>> THEN "" ELSE Head(cs) \o Str(Tail(cs))

\* no-break space
NBSP == "U+00A0"

\* characters str.strip(), str.split() and the pattern \s take for white space
WhiteSpace == {" ", "\t", NBSP}

DigitChars == {"0", "1", "2", "3", "4", "5", "6", "7", "8", "9"}

DigitValue == [c \in DigitChars |->
    CHOOSE n \in 0..9 : Char("0123456789", n + 1) = c]

LetterChars == {Char(LowerChars, i) : i \in 1..Len(LowerChars)}
                   \cup {Char(UpperChars, i) : i \in 1..Len(UpperChars)}

\* the least and the greatest element of a non-empty set of integers
Least(S) == CHOOSE k \in S : \A j \in S : k <= j
Greatest(S) == CHOOSE k \in S : \A j \in S : j <= k

\* the first index at or after i whose character is outside class, Len + 1 if
\* none (i itself when i is past the end)
SkipClass(cs, i, class) ==
    LET S == {k \in i..Len(cs) : cs[k] \notin class}
    IN  IF i > Len(cs) THEN i
        ELSE IF S = {} THEN Len(cs) + 1
        ELSE Least(S)

\* the last index at or before i whose character is outside class, 0 if none
SkipClassBack(cs, i, class) ==
    LET S == {k \in 1..i : cs[k] \notin class}
    IN  IF S = {} THEN 0 ELSE Greatest(S)

\* the characters of cs at the indexes in keep, in order
Pick(cs, keep) ==
    SubSeq([n \in 1..Cardinality(keep) |->
               cs[CHOOSE i \in keep : Cardinality({j \in keep : j <= i}) = n]],
           1, Cardinality(keep))

\* str.strip(chars)
StripChars(cs, class) ==
    LET a == SkipClass(cs, 1, class)
        b == SkipClassBack(cs, Len(cs), class)
    IN  IF a > b THEN <<>> ELSE SubSeq(cs, a, b)

\* str.strip()
Strip(cs) == StripChars(cs, WhiteSpace)

\* str.rstrip(chars)
RStripChars(cs, class) == SubSeq(cs, 1, SkipClassBack(cs, Len(cs), class))

\* str.split(): the maximal runs of characters that are not white space
RECURSIVE SplitFrom(_, _)
SplitFrom(cs, i) ==
    LET a == SkipClass(cs, i, WhiteSpace)
        b == SkipClass(cs, a, {c \in {cs[k] : k \in 1..Len(cs)} : c \notin WhiteSpace})
    IN  IF a > Len(cs) THEN <<>>
        ELSE <<SubSeq(cs, a, b - 1)>> \o SplitFrom(cs, b)

Split(cs) == SplitFrom(cs, 1)

\* ' '.join(words)
RECURSIVE Join(_)
Join(words) ==
    IF words = <<>> THEN <<>>
    ELSE IF Len(words) = 1 THEN words[1]
    ELSE words[1] \o <<" ">> \o Join(Tail(words))

\* str.split(sep) for a one-character separator
RECURSIVE SplitOn(_, _)
SplitOn(cs, sep) ==
    LET k == SkipClass(cs, 1, {c \in {cs[j] : j \in 1..Len(cs)} : c # sep})
    IN  IF k > Len(cs) THEN <<cs>>
        ELSE <<SubSeq(cs, 1, k - 1)>> \o SplitOn(SubSeq(cs, k + 1, Len(cs)), sep)

\* the index where the first occurrence of key starts in cs at or after i, 0 if none
FindFrom(cs, key, i) ==
    LET S == {k \in i..(Len(cs) - Len(key) + 1) : SubSeq(cs, k, k + Len(key) - 1) = key}
    IN  IF S = {} THEN 0 ELSE Least(S)

\* key in cs
ContainsText(key, cs) == FindFrom(cs, key, 1) # 0

\* str.replace(key, by) for a non-empty key
RECURSIVE ReplaceAll(_, _, _)
ReplaceAll(cs, key, by) ==
    LET k == FindFrom(cs, key, 1)
    IN  IF k = 0 THEN cs
        ELSE SubSeq(cs, 1, k - 1) \o by
                 \o ReplaceAll(SubSeq(cs, k + Len(key), Len(cs)), key, by)

\* str.lower(), str.upper() and str.capitalize() of a text
LowerText(cs) == SubSeq([i \in DOMAIN cs |-> LowerChar(cs[i])], 1, Len(cs))

CapitalizeText(cs) ==
    SubSeq([i \in DOMAIN cs |-> IF i = 1 THEN UpperChar(cs[i]) ELSE LowerChar(cs[i])],
           1, Len(cs))

(***************************************************************************)
(* float(text) and str(float).  Values are fixed point; a text carries at  *)
(* most four decimals into its value.  Exponents, "inf", "nan" and digit   *)
(* separators are not among the texts the model feeds in.                  *)
(***************************************************************************)
AllDigits(cs) == \A i \in 1..Len(cs) : cs[i] \in DigitChars

RECURSIVE DigitsValue(_)
DigitsValue(cs) ==
    IF cs = <<>> THEN 0
    ELSE 10 * DigitsValue(SubSeq(cs, 1, Len(cs) - 1)) + DigitValue[cs[Len(cs)]]

\* the value of the digits after the point, fixed point
FractionDigitsValue(cs) ==
    LET k == IF Len(cs) < DP4 THEN Len(cs) ELSE DP4
    IN  DigitsValue(SubSeq(cs, 1, k)) * Pow10(DP4 - k)

\* float(text): a value, or ValueError (raised)
FloatOfDigits(sign, ip, fp) ==
    IF AllDigits(ip) /\ AllDigits(fp) /\ Len(ip) + Len(fp) > 0
    THEN Return(sign * (DigitsValue(ip) * Scale + FractionDigitsValue(fp)))
    ELSE Raise

FloatOfUnsigned(sign, body, dot) ==
    FloatOfDigits(sign, IF dot = 0 THEN body ELSE SubSeq(body, 1, dot - 1),
                  IF dot = 0 THEN <<>> ELSE SubSeq(body, dot + 1, Len(body)))

FloatOfSigned(sign, body) == FloatOfUnsigned(sign, body, FindFrom(body, <<".">>, 1))

FloatOfStripped(s) ==
    IF Len(s) > 0 /\ s[1] \in {"+", "-"}
    THEN FloatOfSigned(IF s[1] = "-" THEN 0 - 1 ELSE 1, Tail(s))
    ELSE FloatOfSigned(1, s)

ParseFloat(cs) == FloatOfStripped(Strip(cs))

\* the decimal digits of a natural number
RECURSIVE NatText(_)
NatText(n) ==
    IF n < 10 THEN <<Char("0123456789", n + 1)>>
    ELSE NatText(n \div 10) \o <<Char("0123456789", (n % 10) + 1)>>

\* the dp digits of a fraction frac / 10^dp, leading zeros kept
RECURSIVE FractionText(_, _)
FractionText(frac, dp) ==
    IF dp = 0 THEN <<>>
    ELSE FractionText(frac \div 10, dp - 1) \o <<Char("0123456789", (frac % 10) + 1)>>

\* str(x) of a non-negative float: at least one decimal, no trailing zeros
FormatFloat(x) ==
    LET fp == RStripChars(FractionText(x % Scale, DP4), {"0"})
    IN  NatText(x \div Scale) \o <<".">> \o (IF fp = <<>> THEN <<"0">> ELSE fp)

(***************************************************************************)
(* constants/units.py: fraction tables                                     *)
(***************************************************************************)
\* display fraction for a decimal part, in the table's order
COMMON_FRACTIONS == <<
    <<1250, "1/8">>, <<2500, "1/4">>, <<3333, "1/3">>, <<3750, "3/8">>,
    <<5000, "1/2">>, <<6250, "5/8">>, <<6667, "2/3">>, <<7500, "3/4">>,
    <<8750, "7/8">> >>

\* value of each precomposed fraction character, in the table's order
UNICODE_FRACTIONS == <<
    <<"U+00BD", 5000>>, <<"U+2153", 3333>>, <<"U+2154", 6667>>,
    <<"U+00BC", 2500>>, <<"U+00BE", 7500>>, <<"U+2155", 2000>>,
    <<"U+2156", 4000>>, <<"U+2157", 6000>>, <<"U+2158", 8000>>,
    <<"U+2159", 1667>>, <<"U+215A", 8333>>, <<"U+215B", 1250>>,
    <<"U+215C", 3750>>, <<"U+215D", 6250>>, <<"U+215E", 8750>> >>

(***************************************************************************)
(* services/parsing.py: fractions                                          *)
(***************************************************************************)
None == <<>>
Some(x) == <<x>>

\* x / y of two floats: ZeroDivisionError (raised) for y = 0
PyDivide(x, y) ==
    LET ax == IF x < 0 THEN 0 - x ELSE x
        ay == IF y < 0 THEN 0 - y ELSE y
        q  == RoundRatio(ax, Scale, ay, DP4)
    IN  IF y = 0 THEN Raise
        ELSE Return(IF (x < 0) # (y < 0) THEN 0 - q ELSE q)

\* re.sub(r'[\s\u00a0\u2000-\u200b]+', ' ', text)
CollapseSpace(cs) ==
    LET spaced == [i \in DOMAIN cs |-> IF cs[i] \in WhiteSpace THEN " " ELSE cs[i]]
    IN  Pick(spaced, {i \in DOMAIN cs : i = 1 \/ cs[i] \notin WhiteSpace
                                            \/ cs[i - 1] \notin WhiteSpace})

\* a match of (\d+)\s*glyph starting at i: the index of the glyph, 0 if none
MixedGlyphAt(cs, glyph, i) ==
    LET d == SkipClass(cs, i, DigitChars)
        s == SkipClass(cs, d, WhiteSpace)
    IN  IF d > i /\ s <= Len(cs) /\ cs[s] = glyph THEN s ELSE 0

\* re.search of that pattern from i on: the start of the leftmost match, 0 if none
SearchMixedGlyph(cs, glyph, i) ==
    LET S == {k \in i..Len(cs) : MixedGlyphAt(cs, glyph, k) # 0}
    IN  IF S = {} THEN 0 ELSE Least(S)

\* re.sub(pattern, replacement, text): every match gets the same replacement
RECURSIVE SubMixedGlyph(_, _, _)
SubMixedGlyph(cs, glyph, replacement) ==
    LET k == SearchMixedGlyph(cs, glyph, 1)
    IN  IF k = 0 THEN cs
        ELSE SubSeq(cs, 1, k - 1) \o replacement
                 \o SubMixedGlyph(SubSeq(cs, MixedGlyphAt(cs, glyph, k) + 1, Len(cs)),
                                  glyph, replacement)

\* NormalizeGlyph without the mixed-number reading
NormalizeGlyphAlone(cs, glyph, value) ==
    ReplaceAll(cs, <<glyph>>, FormatFloat(value))

\* the body of 'for char, value in UNICODE_FRACTIONS.items()'
NormalizeGlyph(cs, glyph, value) ==
    LET k     == SearchMixedGlyph(cs, glyph, 1)
        whole == DigitsValue(SubSeq(cs, k, SkipClass(cs, k, DigitChars) - 1)) * Scale
    IN  IF ~ContainsText(<<glyph>>, cs) THEN cs
        ELSE IF k # 0 THEN SubMixedGlyph(cs, glyph, FormatFloat(whole + value))
        ELSE ReplaceAll(cs, <<glyph>>, FormatFloat(value))

RECURSIVE NormalizeGlyphs(_, _)
NormalizeGlyphs(cs, n) ==
    IF n > Len(UNICODE_FRACTIONS) THEN cs
    ELSE Apply(LAMBDA t : NormalizeGlyphs(t, n + 1),
               NormalizeGlyph(cs, UNICODE_FRACTIONS[n][1], UNICODE_FRACTIONS[n][2]))

\* normalize_fractions(text)
NormalizeFractions(cs) == NormalizeGlyphs(CollapseSpace(cs), 1)

\* a match of \d+\s*/\s*\d+ starting at i: [ok, num, den, end], end the index
\* after the match
SimpleFractionAt(cs, i) ==
    LET d1 == SkipClass(cs, i, DigitChars)
        s1 == SkipClass(cs, d1, WhiteSpace)
        s2 == SkipClass(cs, s1 + 1, WhiteSpace)
        d2 == SkipClass(cs, s2, DigitChars)
    IN  IF d1 > i /\ s1 <= Len(cs) /\ cs[s1] = "/" /\ d2 > s2
        THEN [ok |-> TRUE, num |-> SubSeq(cs, i, d1 - 1), den |-> SubSeq(cs, s2, d2 - 1),
              end |-> d2]
        ELSE [ok |-> FALSE, num |-> <<>>, den |-> <<>>, end |-> i]

\* a match of \d+\s+\d+\s*/\s*\d+ starting at 1: [ok, whole, num, den, end]
MixedFractionAt(cs) ==
    LET d1 == SkipClass(cs, 1, DigitChars)
        s1 == SkipClass(cs, d1, WhiteSpace)
        f  == SimpleFractionAt(cs, s1)
    IN  IF d1 > 1 /\ s1 > d1 /\ f.ok
        THEN [ok |-> TRUE, whole |-> SubSeq(cs, 1, d1 - 1), num |-> f.num, den |-> f.den,
              end |-> f.end]
        ELSE [ok |-> FALSE, whole |-> <<>>, num |-> <<>>, den |-> <<>>, end |-> 1]

\* _parse_fraction_str(s): a value, or ZeroDivisionError (raised)
\* float(num) / float(denom) of two runs of digits
DigitsQuotient(num, den) == PyDivide(DigitsValue(num) * Scale, DigitsValue(den) * Scale)

\* whole + (num / denom)
WholePlus(whole, q) ==
    IF q.raised THEN Raise ELSE Return(DigitsValue(whole) * Scale + q.value)

\* try: return float(s), except (ValueError, TypeError): return 1.0
FloatOrOne(v) == IF v.raised THEN Return(Scale) ELSE v

\* the three branches, on the two matches of the normalized text
MatchedFractionStr(s, m, f) ==
    IF m.ok /\ m.end = Len(s) + 1 THEN WholePlus(m.whole, DigitsQuotient(m.num, m.den))
    ELSE IF f.ok /\ f.end = Len(s) + 1 THEN DigitsQuotient(f.num, f.den)
    ELSE FloatOrOne(ParseFloat(s))

NormalizedFractionStr(s) == MatchedFractionStr(s, MixedFractionAt(s), SimpleFractionAt(s, 1))

ParseFractionStr(text) ==
    IF Strip(text) = <<>> THEN Return(Scale)
    ELSE NormalizedFractionStr(NormalizeFractions(Strip(text)))

\* what one part of the split text adds to the total
ValueOrZero(r) == IF r.raised THEN 0 ELSE r.value

QuotientOrZero(num, den) ==
    IF num.raised \/ den.raised THEN 0 ELSE ValueOrZero(PyDivide(num.value, den.value))

PiecesValue(pieces) ==
    IF Len(pieces) # 2 THEN 0
    ELSE QuotientOrZero(ParseFloat(pieces[1]), ParseFloat(pieces[2]))

PartValue(part) ==
    IF ContainsText(<<"/">>, part) THEN PiecesValue(SplitOn(part, "/"))
    ELSE ValueOrZero(ParseFloat(part))

RECURSIVE SumParts(_)
SumParts(parts) == IF parts = <<>> THEN 0 ELSE PartValue(parts[1]) + SumParts(Tail(parts))

\* total after the try block: float(value), or the sum of the parts
ParsedTotal(text, v) == IF v.raised THEN SumParts(Split(text)) ELSE v.value

ParsedTotalOf(text) == ParsedTotal(text, ParseFloat(text))

\* if total <= 0: total = default
DefaultIfNotPositive(total, default) == IF total <= 0 THEN default ELSE total

\* if min_val is not None and total < min_val: total = min_val
ClampToMin(total, min_val) ==
    IF min_val # None /\ total < min_val[1] THEN min_val[1] ELSE total

\* parse_fraction(value, default, min_val); value and min_val may be None
ParseFraction(value, default, min_val) ==
    IF value = None \/ value = Some(<<>>) THEN Return(default)
    ELSE Return(ClampToMin(DefaultIfNotPositive(ParsedTotalOf(Strip(value[1])), default),
                           min_val))

\* f"{value:.2f}".rstrip('0').rstrip('.')
FormatTwoDecimals(value) ==
    LET r == RoundRatio(value, 1, 1, DP2) \div Pow10(DP4 - DP2)
    IN  RStripChars(RStripChars(NatText(r \div Pow10(DP2)) \o <<".">>
                                    \o FractionText(r % Pow10(DP2), DP2), {"0"}), {"."})

\* the first entry of COMMON_FRACTIONS within 0.02 of decimal, 0 if none
RECURSIVE CommonFractionFrom(_, _)
CommonFractionFrom(decimal, n) ==
    IF n > Len(COMMON_FRACTIONS) THEN 0
    ELSE IF (IF decimal >= COMMON_FRACTIONS[n][1] THEN decimal - COMMON_FRACTIONS[n][1]
             ELSE COMMON_FRACTIONS[n][1] - decimal) < 2 * Pow10(DP4 - DP2)
    THEN n
    ELSE CommonFractionFrom(decimal, n + 1)

\* float_to_fraction that never consults COMMON_FRACTIONS
FloatToFractionNoTable(value) ==
    IF value = 0 THEN <<"0">>
    ELSE IF value % Scale = 0 THEN NatText(value \div Scale)
    ELSE FormatTwoDecimals(value)

\* float_to_fraction(value) for value >= 0
FloatToFraction(value) ==
    LET whole   == value \div Scale
        decimal == value % Scale
        n       == CommonFractionFrom(decimal, 1)
    IN  IF value = 0 THEN <<"0">>
        ELSE IF decimal = 0 THEN NatText(whole)
        ELSE IF n # 0
        THEN IF whole > 0 THEN NatText(whole) \o <<" ">> \o Chars(COMMON_FRACTIONS[n][2])
             ELSE Chars(COMMON_FRACTIONS[n][2])
        ELSE FormatTwoDecimals(value)

(***************************************************************************)
(* services/parsing.py: parse_ingredient                                   *)
(***************************************************************************)
\* lowercase word -> standard unit
UNIT_MAPPINGS ==
    [w \in {"pound", "pounds", "lb", "lbs"} |-> "LB"]
    @@ [w \in {"ounce", "ounces", "oz"} |-> "OZ"]
    @@ [w \in {"cup", "cups", "c"} |-> "CUP"]
    @@ [w \in {"tablespoon", "tablespoons", "tbsp", "tbs", "tb"} |-> "TBSP"]
    @@ [w \in {"teaspoon", "teaspoons", "tsp", "ts"} |-> "TSP"]
    @@ [w \in {"gram", "grams", "g"} |-> "G"]
    @@ [w \in {"kilogram", "kilograms", "kg"} |-> "KG"]
    @@ [w \in {"milliliter", "milliliters", "ml"} |-> "ML"]
    @@ [w \in {"liter", "liters", "l"} |-> "L"]
    @@ [w \in {"clove", "cloves"} |-> "CLOVE"]
    @@ [w \in {"head", "heads"} |-> "HEAD"]
    @@ [w \in {"can", "cans"} |-> "CAN"]
    @@ [w \in {"slice", "slices", "piece", "pieces", "package", "packages", "pkg",
               "bunch", "bunches", "stalk", "stalks", "sprig", "sprigs",
               "pinch", "pinches", "dash", "dashes"} |-> "EA"]

\* words that mark a comma clause as a note
NOTE_KEYWORDS == {
    "optional", "divided", "or more", "or less", "to taste",
    "for serving", "for garnish", "at room temp", "softened",
    "melted", "chopped", "diced", "minced", "sliced", "cubed",
    "sifted", "packed", "beaten", "room temperature", "thawed",
    "drained", "rinsed", "peeled", "seeded", "cored", "trimmed",
    "cut into", "plus more", "as needed", "torn", "shredded"}

\* NOTE_KEYWORDS as texts
NoteKeywordTexts == {Chars(k) : k \in NOTE_KEYWORDS}

\* re.sub(r'\s*\([^)]*\)?', '', text) for the bracket pair open, close
RECURSIVE RemoveBracketed(_, _, _)
RemoveBracketed(cs, open, close) ==
    LET p == FindFrom(cs, <<open>>, 1)
        a == SkipClassBack(cs, p - 1, WhiteSpace)
        c == FindFrom(cs, <<close>>, p + 1)
    IN  IF p = 0 THEN cs
        ELSE IF c = 0 THEN SubSeq(cs, 1, a)
        ELSE SubSeq(cs, 1, a) \o RemoveBracketed(SubSeq(cs, c + 1, Len(cs)), open, close)

\* one pass of the loop that removes (...), [...] and {...}
RemoveBracketsPass(cs) ==
    Apply(LAMBDA t : RemoveBracketed(t, "{", "}"),
          Apply(LAMBDA t : RemoveBracketed(t, "[", "]"), RemoveBracketed(cs, "(", ")")))

\* 'for _ in range(3)'
RECURSIVE RemoveBrackets(_, _)
RemoveBrackets(cs, passes) ==
    IF passes = 0 THEN cs
    ELSE Apply(LAMBDA t : RemoveBrackets(t, passes - 1), RemoveBracketsPass(cs))

\* re.sub(r'[(){}\[\]]+', '', text)
RemoveChars(cs, class) == Pick(cs, {i \in DOMAIN cs : cs[i] \notin class})

\* the comma step never dropping a clause
StripNoteKeepAll(cs) == cs

\* the comma step: re.search(r',\s*(.*)$') and re.sub(r',.*$', '')
StripNote(cs) ==
    LET k     == FindFrom(cs, <<",">>, 1)
        after == LowerText(SubSeq(cs, SkipClass(cs, k + 1, WhiteSpace), Len(cs)))
    IN  IF k = 0 THEN cs
        ELSE IF \E kw \in NoteKeywordTexts : ContainsText(kw, after) THEN SubSeq(cs, 1, k - 1)
        ELSE cs

\* the end of group 1 of qty_pattern matched at the start (0: no match):
\* mixed fraction, else simple fraction, else \d+\.?\d*
QtyTokenEnd(cs) ==
    LET m  == MixedFractionAt(cs)
        f  == SimpleFractionAt(cs, 1)
        d1 == SkipClass(cs, 1, DigitChars)
        d2 == IF d1 <= Len(cs) /\ cs[d1] = "." THEN SkipClass(cs, d1 + 1, DigitChars) ELSE d1
    IN  IF m.ok THEN m.end - 1
        ELSE IF f.ok THEN f.end - 1
        ELSE IF d1 > 1 THEN d2 - 1
        ELSE 0

\* re.sub(r'^[\d\s/]+(?=\s*[a-zA-Z])', '', text)
RemoveLeadingFraction(cs) ==
    LET e == SkipClass(cs, 1, DigitChars \cup WhiteSpace \cup {"/"})
    IN  IF e > 1 /\ e <= Len(cs) /\ cs[e] \in LetterChars THEN SubSeq(cs, e, Len(cs)) ELSE cs

GlyphChars == {UNICODE_FRACTIONS[n][1] : n \in 1..Len(UNICODE_FRACTIONS)}

\* ' '.join(word.capitalize() for word in name.split())
RECURSIVE CapitalizeWords(_)
CapitalizeWords(words) ==
    IF words = <<>> THEN <<>>
    ELSE <<CapitalizeText(words[1])>> \o CapitalizeWords(Tail(words))

TitleName(cs) == Join(CapitalizeWords(Split(cs)))

\* the unit and the name read off the text left after the quantity
UnitAndName(quantity, text) ==
    LET words  == Split(text)
        first  == Str(RStripChars(LowerText(words[1]), {"."}))
        mapped == words # <<>> /\ first \in DOMAIN UNIT_MAPPINGS
        unit   == IF mapped THEN UNIT_MAPPINGS[first] ELSE "EA"
        rest   == IF mapped THEN Join(Tail(words)) ELSE text
    IN  Return(<<quantity, unit, TitleName(Strip(rest))>>)

\* the quantity, then the unit and the name, of a line cleaned of brackets and notes
ParseQuantified(quantity, rest) ==
    IF quantity.raised THEN Raise
    ELSE Apply(LAMBDA t : UnitAndName(quantity.value, t),
               Strip(Apply(RemoveLeadingFraction, RemoveChars(rest, GlyphChars))))

\* quantity = 1.0, or _parse_fraction_str of the token that ends at e
QuantityUpTo(text, e) ==
    IF e = 0 THEN Return(Scale) ELSE ParseFractionStr(Strip(SubSeq(text, 1, e)))

\* text[qty_match.end():].strip(); the text itself without a match
TextAfter(text, e) == IF e = 0 THEN text ELSE Strip(SubSeq(text, e + 1, Len(text)))

ParseFromToken(text, e) == ParseQuantified(QuantityUpTo(text, e), TextAfter(text, e))

ParseCleaned(text) == ParseFromToken(text, QtyTokenEnd(text))

\* the line with fractions normalized and brackets, leading dashes and a note removed
CleanLine(text) ==
    Apply(StripNote,
      Apply(LAMBDA t : RemoveChars(t, {"(", ")", "{", "}", "[", "]"}),
        Apply(LAMBDA t : SubSeq(t, SkipClass(t, 1, {"/", "-"} \cup WhiteSpace), Len(t)),
          Apply(LAMBDA t : RemoveBrackets(t, 3), NormalizeFractions(text)))))

\* parse_ingredient(text) -> (quantity, unit, name), (None, None, None) for a
\* blank text, or ZeroDivisionError (raised)
ParseIngredient(text) ==
    IF Strip(text) = <<>> THEN Return(<<None, None, None>>)
    ELSE Apply(ParseCleaned, Apply(CleanLine, Strip(text)))

(***************************************************************************)
(* services/matching.py: normalize_ingredient_name, find_ingredient_match  *)
(***************************************************************************)
\* normalized name -> canonical name, as <<key, value>> pairs
INGREDIENT_ALIASES == {
    <<"sourdough", "Sourdough Bread">>, <<"sourdough bread", "Sourdough Bread">>,
    <<"bread sourdough", "Sourdough Bread">>, <<"white bread", "White Bread">>,
    <<"bread white", "White Bread">>, <<"ground beef", "Ground Beef">>,
    <<"beef ground", "Ground Beef">>, <<"minced beef", "Ground Beef">>,
    <<"chicken breast", "Chicken Breast">>, <<"breast chicken", "Chicken Breast">>,
    <<"boneless skinless chicken breast", "Chicken Breast">>,
    <<"boneless skinless chicken breasts", "Chicken Breast">>,
    <<"chicken thigh", "Chicken Thigh">>, <<"chicken thighs", "Chicken Thigh">>,
    <<"boneless skinless chicken thigh", "Chicken Thigh">>,
    <<"boneless skinless chicken thighs", "Chicken Thigh">>,
    <<"boneless chicken thigh", "Chicken Thigh">>,
    <<"boneless chicken thighs", "Chicken Thigh">>, <<"green onion", "Green Onion">>,
    <<"green onions", "Green Onion">>, <<"scallion", "Green Onion">>,
    <<"scallions", "Green Onion">>, <<"spring onion", "Green Onion">>,
    <<"spring onions", "Green Onion">>, <<"bell pepper", "Bell Pepper">>,
    <<"bell peppers", "Bell Pepper">>, <<"garlic clove", "Garlic">>,
    <<"garlic cloves", "Garlic">>, <<"minced garlic", "Garlic">>,
    <<"olive oil", "Olive Oil">>, <<"extra virgin olive oil", "Olive Oil">>,
    <<"vegetable oil", "Vegetable Oil">>, <<"canola oil", "Vegetable Oil">>,
    <<"heavy cream", "Heavy Cream">>, <<"whipping cream", "Heavy Cream">>,
    <<"heavy whipping cream", "Heavy Cream">>, <<"sour cream", "Sour Cream">>,
    <<"cream cheese", "Cream Cheese">>, <<"parmesan cheese", "Parmesan">>,
    <<"parmigiano", "Parmesan">>, <<"parmigiano reggiano", "Parmesan">>,
    <<"cheddar cheese", "Cheddar Cheese">>, <<"mozzarella cheese", "Mozzarella">>,
    <<"kosher salt", "Salt">>, <<"sea salt", "Salt">>, <<"table salt", "Salt">>,
    <<"black pepper", "Pepper">>, <<"ground pepper", "Pepper">>,
    <<"ground black pepper", "Pepper">>, <<"egg", "Egg">>, <<"eggs", "Egg">>,
    <<"large egg", "Egg">>, <<"large eggs", "Egg">>, <<"yellow onion", "Onion">>,
    <<"white onion", "Onion">>, <<"red onion", "Red Onion">>,
    <<"clove garlic", "Garlic">>, <<"all purpose flour", "Flour">>,
    <<"all-purpose flour", "Flour">>, <<"ap flour", "Flour">>,
    <<"granulated sugar", "Sugar">>, <<"white sugar", "Sugar">>,
    <<"brown sugar", "Brown Sugar">>, <<"light brown sugar", "Brown Sugar">>,
    <<"dark brown sugar", "Brown Sugar">>, <<"unsalted butter", "Butter">>,
    <<"salted butter", "Butter">>}

\* descriptors dropped from a name
remove_words == {
    "fresh", "dried", "chopped", "diced", "sliced", "minced", "large", "small",
    "medium", "whole", "raw", "cooked", "boneless", "skinless", "organic", "frozen",
    "canned", "a", "an", "the", "of"}

\* plural -> singular
singular_map ==
    ("eggs" :> "egg") @@ ("onions" :> "onion") @@ ("tomatoes" :> "tomato")
    @@ ("potatoes" :> "potato") @@ ("carrots" :> "carrot") @@ ("peppers" :> "pepper")
    @@ ("cloves" :> "clove") @@ ("breasts" :> "breast") @@ ("thighs" :> "thigh")
    @@ ("slices" :> "slice") @@ ("stalks" :> "stalk") @@ ("leaves" :> "leaf")
    @@ ("berries" :> "berry") @@ ("apples" :> "apple") @@ ("lemons" :> "lemon")
    @@ ("limes" :> "lime") @@ ("oranges" :> "orange") @@ ("bananas" :> "banana")
    @@ ("mushrooms" :> "mushroom") @@ ("tortillas" :> "tortilla")
    @@ ("noodles" :> "noodle")

\* words that end in s and are no plural
no_strip_s == {"cheese", "rice", "grass", "molasses", "hummus"}

\* singular_map.get(w, w)
Singular(w) == IF Str(w) \in DOMAIN singular_map THEN Chars(singular_map[Str(w)]) ELSE w

\* the generic -s plural
StripPlural(w) ==
    IF Len(w) > 3 /\ w[Len(w)] = "s" /\ Str(w) \notin no_strip_s
    THEN SubSeq(w, 1, Len(w) - 1)
    ELSE w

\* the words without the descriptors
KeepWords(words) == SelectSeq(words, LAMBDA w : Str(w) \notin remove_words)

\* every word through singular_map, then through the generic -s rule
SingularWords(words) ==
    SubSeq([i \in 1..Len(words) |-> StripPlural(Singular(words[i]))], 1, Len(words))

\* the name up to the split into words: lowercased, stripped, special
\* characters removed, punctuation and a leading number stripped
CleanName(name) ==
    Apply(LAMBDA t : Strip(SubSeq(t, SkipClass(t, 1, DigitChars \cup WhiteSpace
                                                         \cup {"/", ".", "-"}), Len(t))),
      Apply(LAMBDA t : StripChars(t, {"-", "/", ".", ",", ";", ":", " "}),
        Apply(LAMBDA t : RemoveChars(t, {"*", "#", "@", "!"}), Strip(LowerText(name)))))

\* the alias of the joined words, else the words capitalized
AliasOrTitle(normalized) ==
    IF \E p \in INGREDIENT_ALIASES : p[1] = Str(normalized)
    THEN Chars((CHOOSE p \in INGREDIENT_ALIASES : p[1] = Str(normalized))[2])
    ELSE TitleName(normalized)

\* normalize_ingredient_name(name)
NormalizeIngredientName(name) ==
    AliasOrTitle(Join(SingularWords(KeepWords(Split(CleanName(name))))))

\* IngredientSynonym.query.filter(lower(synonym) == key).first(): the
\* ingredient_id of the row, None without one
SynonymIngredient(synonyms, key) ==
    IF \E s \in synonyms : LowerText(s.synonym) = key
    THEN Some((CHOOSE s \in synonyms : LowerText(s.synonym) = key).ingredient_id)
    ELSE None

\* Ingredient.query.filter(lower(name) == key).first(): the id of the row
IngredientNamed(ingredients, key) ==
    IF \E id \in DOMAIN ingredients : LowerText(ingredients[id]) = key
    THEN Some(CHOOSE id \in DOMAIN ingredients : LowerText(ingredients[id]) = key)
    ELSE None

\* the three lookups with the ingredient name tried before the synonym
LookupExactFirst(normalized_lower, raw_lower, ingredients, synonyms) ==
    IF IngredientNamed(ingredients, normalized_lower) # None
    THEN <<IngredientNamed(ingredients, normalized_lower), Some("exact")>>
    ELSE IF SynonymIngredient(synonyms, normalized_lower) # None
    THEN <<SynonymIngredient(synonyms, normalized_lower), Some("synonym")>>
    ELSE IF raw_lower # normalized_lower /\ IngredientNamed(ingredients, raw_lower) # None
    THEN <<IngredientNamed(ingredients, raw_lower), Some("exact")>>
    ELSE <<None, None>>

\* the three lookups of find_ingredient_match, in the code's order
Lookup(normalized_lower, raw_lower, ingredients, synonyms) ==
    IF SynonymIngredient(synonyms, normalized_lower) # None
    THEN <<SynonymIngredient(synonyms, normalized_lower), Some("synonym")>>
    ELSE IF IngredientNamed(ingredients, normalized_lower) # None
    THEN <<IngredientNamed(ingredients, normalized_lower), Some("exact")>>
    ELSE IF raw_lower # normalized_lower /\ IngredientNamed(ingredients, raw_lower) # None
    THEN <<IngredientNamed(ingredients, raw_lower), Some("exact")>>
    ELSE <<None, None>>

\* find_ingredient_match(raw_name, ...) -> (ingredient, match_type)
FindIngredientMatch(raw_name, ingredients, synonyms) ==
    Return(Lookup(LowerText(NormalizeIngredientName(raw_name)), LowerText(Strip(raw_name)),
                  ingredients, synonyms))

(***************************************************************************)
(* services/matching.py: get_ingredient_suggestions                        *)
(***************************************************************************)
\* set(text.split())
WordSet(cs) == {Split(cs)[i] : i \in 1..Len(Split(cs))}

MaxOfTwo(a, b) == IF a >= b THEN a ELSE b

\* (len(common_words) / max(len(words), len(ing_words))) * 80
PartialScore(common, words, ing_words) ==
    RoundRatio(80 * Scale, Cardinality(common),
               MaxOfTwo(Cardinality(words), Cardinality(ing_words)), DP4)

\* what one ingredient appends to suggestions: nothing or one (id, score, reason)
SuggestionFor(id, ing_lower, normalized_lower) ==
    IF ing_lower = normalized_lower THEN <<<<id, 100 * Scale, "exact">>>>
    ELSE IF WordSet(normalized_lower) \cap WordSet(ing_lower) # {}
    THEN <<<<id, PartialScore(WordSet(normalized_lower) \cap WordSet(ing_lower),
                              WordSet(normalized_lower), WordSet(ing_lower)), "partial">>>>
    ELSE <<>>

\* the loop over Ingredient.query.all(), rows taken by id, from row n on
RECURSIVE SuggestionsFrom(_, _, _)
SuggestionsFrom(ingredients, normalized_lower, n) ==
    IF n > Len(ingredients) THEN <<>>
    ELSE SuggestionFor(n, LowerText(ingredients[n]), normalized_lower)
             \o SuggestionsFrom(ingredients, normalized_lower, n + 1)

\* x put before the first entry whose score is not above its own
RECURSIVE InsertByScore(_, _)
InsertByScore(x, sorted) ==
    IF sorted = <<>> THEN <<x>>
    ELSE IF sorted[1][2] > x[2] THEN <<sorted[1]>> \o InsertByScore(x, Tail(sorted))
    ELSE <<x>> \o sorted

\* suggestions.sort(key=lambda x: x[1], reverse=True): stable, highest first
RECURSIVE SortByScore(_)
SortByScore(s) == IF s = <<>> THEN <<>> ELSE InsertByScore(s[1], SortByScore(Tail(s)))

\* s[:limit] for limit >= 0
Truncate(s, limit) == SubSeq(s, 1, IF limit < Len(s) THEN limit ELSE Len(s))

\* get_ingredient_suggestions that truncates before it sorts
GetIngredientSuggestionsCutFirst(normalized_name, ingredients, limit) ==
    SortByScore(Truncate(SuggestionsFrom(ingredients, LowerText(normalized_name), 1), limit))

\* get_ingredient_suggestions(normalized_name, Ingredient, limit)
GetIngredientSuggestions(normalized_name, ingredients, limit) ==
    Truncate(SortByScore(SuggestionsFrom(ingredients, LowerText(normalized_name), 1)), limit)

(***************************************************************************)
(* Calls of the parsers                                                    *)
(***************************************************************************)
\* comma clauses after the name of a line
MaxClauses == 2

\* the text of a fraction character alone, after "1" and after "1 "
GlyphTexts ==
    UNION {{<<g>>, <<"1", g>>, <<"1", " ", g>>} : g \in GlyphChars}

\* the value argument of parse_fraction
QuantityValues ==
    {None} \cup {Some(Chars(s)) : s \in {"", " ", "0", "-3", "2", "0.5", "1.5", " 2 ",
                                          "1/2", "3/4", "1 1/2", "1 1/4", "1/0", "x/y",
                                          "1/2/3", "abc", "1 x", "1/8", "1/4", "1/3",
                                          "3/8", "5/8", "2/3", "7/8"}}
           \cup {Some(t) : t \in GlyphTexts}

DefaultValues == {Scale, 0, Scale \div 2}

MinValues == {None, Some(Scale \div 100), Some(2 * Scale)}

\* the argument of float_to_fraction
DisplayValues ==
    {COMMON_FRACTIONS[n][1] : n \in 1..Len(COMMON_FRACTIONS)}
        \cup {0, Scale, (3 * Scale) \div 2, Scale \div 5, (13 * Scale) \div 100,
              (23 * Scale) \div 10}

\* the pieces a line is put together from
LineQuantities ==
    {Chars(s) : s \in {"", "2", "0.5", "1/2", "1 1/2", "1/0", "1 1/0", "x/y"}}
        \cup {<<"2", "U+00BD">>, <<"U+00BD">>, <<"1", " ", "U+2153">>}

LineUnits == {Chars(s) : s \in {"", "cups", "tbsp", "lb."}}

LineNames == {Chars(s) : s \in {"", "all-purpose flour", "olive oil", "butter (unsalted)"}}

LineClauses == {Chars(s) : s \in {"sifted", "cold", "Finely Chopped"}}

\* the argument of normalize_ingredient_name and of find_ingredient_match
RawNames ==
    {Chars(s) : s \in {"olive oil", " Fresh Olive Oil ", "extra virgin olive oil", "Eggs",
                       "2 large eggs", "Fresh Basil", "basil", "all-purpose flour",
                       "Swiss Cheese", "bay leaves", "*organic* tomatoes!"}}

\* the keys of INGREDIENT_ALIASES as texts
AliasKeys == {Chars(p[1]) : p \in INGREDIENT_ALIASES}

\* the line made of the pieces: the words joined by spaces, then each clause
\* after a comma and a space
RECURSIVE WithClauses(_, _)
WithClauses(cs, clauses) ==
    IF clauses = <<>> THEN cs
    ELSE WithClauses(cs \o <<",", " ">> \o clauses[1], Tail(clauses))

LineOf(quantity, unit, name, clauses) ==
    WithClauses(Join(SelectSeq(<<quantity, unit, name>>, LAMBDA p : p # <<>>)), clauses)

ParseInit ==
    /\ web = Idle
    /\ conv = Idle
    /\ db = Idle
    /\ shop = Idle
    /\ units = Idle
    /\ match = Idle
    /\ parse \in [pc : {"call"}, fn : {"parse_fraction"}, value : QuantityValues,
                  default : DefaultValues, min_val : MinValues]
              \cup [pc : {"call"}, fn : {"float_to_fraction"}, value : DisplayValues]
              \cup [pc : {"call"}, fn : {"parse_ingredient"}, quantity : LineQuantities,
                    unit : LineUnits, name : LineNames,
                    clauses : SeqsUpTo(LineClauses, MaxClauses)]
              \cup [pc : {"call"}, fn : {"normalize_ingredient_name"},
                    name : RawNames \cup AliasKeys]

\* parse_fraction(value, default, min_val), run to its return
ParseFractionCall ==
    /\ parse.pc = "call"
    /\ parse.fn = "parse_fraction"
    /\ parse' = [parse EXCEPT !.pc = "done"] @@
                [ret |-> ParseFraction(parse.value, parse.default, parse.min_val)]
    /\ UNCHANGED <<conv, db, shop, units, match, web>>

\* float_to_fraction(value), run to its return
FloatToFractionCall ==
    /\ parse.pc = "call"
    /\ parse.fn = "float_to_fraction"
    /\ parse' = [parse EXCEPT !.pc = "formatted"] @@ [text |-> FloatToFraction(parse.value)]
    /\ UNCHANGED <<conv, db, shop, units, match, web>>

\* the displayed text parsed again: parse_fraction(text)
ReparseCall ==
    /\ parse.pc = "formatted"
    /\ parse' = [parse EXCEPT !.pc = "done"] @@
                [ret |-> ParseFraction(Some(parse.text), Scale, None)]
    /\ UNCHANGED <<conv, db, shop, units, match, web>>

\* parse_ingredient(line), run to its return
ParseIngredientCall ==
    /\ parse.pc = "call"
    /\ parse.fn = "parse_ingredient"
    /\ LET line == LineOf(parse.quantity, parse.unit, parse.name, parse.clauses)
       IN  parse' = [parse EXCEPT !.pc = "done"] @@
                    [line |-> line, ret |-> ParseIngredient(line)]
    /\ UNCHANGED <<conv, db, shop, units, match, web>>

\* normalize_ingredient_name(name), run to its return
NormalizeNameCall ==
    /\ parse.pc = "call"
    /\ parse.fn = "normalize_ingredient_name"
    /\ parse' = [parse EXCEPT !.pc = "done"] @@ [ret |-> NormalizeIngredientName(parse.name)]
    /\ UNCHANGED <<conv, db, shop, units, match, web>>

ParseNext ==
    \/ ParseFractionCall
    \/ FloatToFractionCall
    \/ ReparseCall
    \/ ParseIngredientCall
    \/ NormalizeNameCall

SpecParse == ParseInit /\ [][ParseNext]_vars

(***************************************************************************)
(* Calls of find_ingredient_match                                          *)
(***************************************************************************)
\* rows of the ingredient table and of the synonym table
MaxIngredients == 2
MaxSynonyms == 2

IngredientNames ==
    {Chars(s) : s \in {"Olive Oil", "Egg", "Fresh Basil", "Basil", "Vegetable Oil"}}

\* texts migrate_data stores as synonyms: keys of INGREDIENT_ALIASES
SynonymTexts == {Chars(s) : s \in {"olive oil", "egg", "extra virgin olive oil"}}

\* id -> name, the names different ignoring case
IngredientTables ==
    UNION {{t \in [1..k -> IngredientNames] :
               \A i, j \in 1..k : LowerText(t[i]) = LowerText(t[j]) => i = j}
           : k \in 0..MaxIngredients}

\* rows [synonym, ingredient_id] over the ingredients of a table, the synonyms
\* different ignoring case
SynonymTables(ingredients) ==
    {S \in SUBSET [synonym : SynonymTexts, ingredient_id : DOMAIN ingredients] :
        /\ Cardinality(S) <= MaxSynonyms
        /\ \A s, t \in S : LowerText(s.synonym) = LowerText(t.synonym) => s = t}

MatchInit ==
    /\ web = Idle
    /\ conv = Idle
    /\ shop = Idle
    /\ units = Idle
    /\ parse = Idle
    /\ \E ingredients \in IngredientTables :
          db \in [ingredients : {ingredients}, synonyms : SynonymTables(ingredients)]
    /\ match \in [pc : {"call"}, raw_name : RawNames]

\* find_ingredient_match(raw_name), run to its return
FindMatchCall ==
    /\ match.pc = "call"
    /\ match' = [match EXCEPT !.pc = "done"] @@
                [normalized |-> NormalizeIngredientName(match.raw_name),
                 ret |-> FindIngredientMatch(match.raw_name, db.ingredients, db.synonyms)]
    /\ UNCHANGED <<conv, db, shop, units, parse, web>>

MatchNext == FindMatchCall

SpecMatch == MatchInit /\ [][MatchNext]_vars

(***************************************************************************)
(* Calls of get_ingredient_suggestions                                     *)
(***************************************************************************)
\* the limit argument
MaxLimit == 2

\* the names asked for: as typed, and as normalize_ingredient_name returns them
SuggestNames == RawNames \cup {NormalizeIngredientName(n) : n \in RawNames}

SuggestInit ==
    /\ web = Idle
    /\ conv = Idle
    /\ shop = Idle
    /\ units = Idle
    /\ parse = Idle
    /\ db \in [ingredients : IngredientTables, synonyms : {{}}]
    /\ match \in [pc : {"call"}, normalized_name : SuggestNames, limit : 0..MaxLimit]

\* get_ingredient_suggestions(normalized_name, limit), run to its return
SuggestCall ==
    /\ match.pc = "call"
    /\ match' = [match EXCEPT !.pc = "done"] @@
                [ret |-> GetIngredientSuggestions(match.normalized_name, db.ingredients,
                                                  match.limit)]
    /\ UNCHANGED <<conv, db, shop, units, parse, web>>

SuggestNext == SuggestCall

SpecSuggest == SuggestInit /\ [][SuggestNext]_vars

(***************************************************************************)
(* app.py: the ingredient catalog.  Of an Ingredient row the model keeps   *)
(* the columns the catalog routes decide by: name, is_core, cost, weight.  *)
(* A RecipeIngredient row is kept as [recipe, ingredient_id], a            *)
(* PantryStaple row as its ingredient_id, a recipe as its name.  The       *)
(* use-up and shopping-item tables stay empty in these runs, so the        *)
(* statements of ingredient_delete and migrate_data on them change         *)
(* nothing.                                                                *)
(***************************************************************************)
\* html.escape(text)
HtmlEntity(c) ==
    CASE c = "&" -> Chars("&amp;")
      [] c = "<" -> Chars("&lt;")
      [] c = ">" -> Chars("&gt;")
      [] c = "\"" -> Chars("&quot;")
      [] c = "'" -> Chars("&#x27;")
      [] OTHER -> <<c>>

RECURSIVE HtmlEscapeFrom(_, _)
HtmlEscapeFrom(cs, i) ==
    IF i > Len(cs) THEN <<>> ELSE HtmlEntity(cs[i]) \o HtmlEscapeFrom(cs, i + 1)

HtmlEscape(cs) == HtmlEscapeFrom(cs, 1)

\* text[:max_length] + '...' when text is longer than max_length
TruncateText(text, max_length) ==
    IF Len(text) > max_length THEN SubSeq(text, 1, max_length) \o Chars("...") ELSE text

\* utils/sanitizer.py sanitize_text(text, max_length)
SanitizeText(text, max_length) == TruncateText(HtmlEscape(Strip(text)), max_length)

\* value LIKE pattern: % stands for any run of characters, _ for any one
RECURSIVE LikeMatch(_, _)
LikeMatch(value, pattern) ==
    IF pattern = <<>> THEN value = <<>>
    ELSE IF Head(pattern) = "%"
         THEN \E k \in 0..Len(value) :
                  LikeMatch(SubSeq(value, k + 1, Len(value)), Tail(pattern))
    ELSE /\ value # <<>>
         /\ Head(pattern) = "_" \/ Head(pattern) = Head(value)
         /\ LikeMatch(Tail(value), Tail(pattern))

\* column.ilike(pattern)
ILike(value, pattern) == LikeMatch(LowerText(value), LowerText(pattern))

\* the maximal length sanitize_text is given for a name
NameMaxLength == 200

\* the id the database gives the next Ingredient row
NextId(d) ==
    IF DOMAIN d.ingredients = {} THEN 1 ELSE Greatest(DOMAIN d.ingredients) + 1

\* db.session.add(Ingredient(...)) and flush
AddIngredient(d, row) ==
    [d EXCEPT !.ingredients =
        [id \in DOMAIN d.ingredients \cup {NextId(d)} |->
            IF id \in DOMAIN d.ingredients THEN d.ingredients[id] ELSE row]]

\* the rows of the ingredient table without those of the ids in gone
WithoutIngredients(d, gone) ==
    [d EXCEPT !.ingredients = [id \in DOMAIN d.ingredients \ gone |-> d.ingredients[id]]]

\* what a route leaves behind: the stored rows and the status of its response
Response(d, status) == [db |-> d, status |-> status]

\* ingredient_add with the form fields name, is_core, cost (the other fields
\* at their defaults, which pass the whitelists)
IngredientAddSanitized(d, name, form) ==
    IF \E id \in DOMAIN d.ingredients : ILike(d.ingredients[id].name, name)
    THEN Response(d, 302)
    ELSE Response(AddIngredient(d, [name |-> name, is_core |-> form.is_core = "1",
                                    cost |-> form.cost, weight |-> None]), 302)

IngredientAddResult(d, form) ==
    IF Strip(form.name) = <<>> THEN Response(d, 302)
    ELSE IngredientAddSanitized(d, SanitizeText(Strip(form.name), NameMaxLength), form)

\* the is_core column after ingredient_edit
EditedIsCore(old, is_core_val) ==
    IF is_core_val \in {"1", "true"} THEN TRUE
    ELSE IF is_core_val \in {"0", "false"} THEN FALSE
    ELSE old

\* db.session.commit() of ingredient_edit: the UNIQUE constraint on name fails
\* when another row holds exactly the new name, and the change is rolled back
CommitEdit(d, id, row) ==
    IF \E other \in DOMAIN d.ingredients \ {id} : d.ingredients[other].name = row.name
    THEN Response(d, 400)
    ELSE Response([d EXCEPT !.ingredients[id] = row], 200)

\* ingredient_edit after get_or_404 and the empty-name return: the conflict
\* check on the name as typed, then the row with the sanitized name
IngredientEditNamed(d, id, name, form) ==
    IF /\ LowerText(name) # LowerText(d.ingredients[id].name)
       /\ \E other \in DOMAIN d.ingredients \ {id} :
              ILike(d.ingredients[other].name, name)
    THEN Response(d, 400)
    ELSE CommitEdit(d, id, [d.ingredients[id] EXCEPT
             !.name = SanitizeText(name, NameMaxLength),
             !.cost = form.cost,
             !.is_core = EditedIsCore(d.ingredients[id].is_core, form.is_core)])

IngredientEditResult(d, id, form) ==
    IF id \notin DOMAIN d.ingredients THEN Response(d, 404)
    ELSE IF Strip(form.name) = <<>> THEN Response(d, 400)
    ELSE IngredientEditNamed(d, id, Strip(form.name), form)

\* db.session.add(RecipeIngredient(recipe, ingredient))
AddRecipeIngredient(d, recipe, id) ==
    [d EXCEPT !.recipe_ingredients = @ \cup {[recipe |-> recipe, ingredient_id |-> id]}]

\* a line of the review form whose ingredient is 'new': the stores it can
\* leave (.first() may return any of the rows whose name matches)
ImportNewLine(d, recipe, new_name) ==
    LET found == {id \in DOMAIN d.ingredients :
                     LowerText(d.ingredients[id].name) = LowerText(new_name)}
    IN  IF new_name = <<>> THEN {d}
        ELSE IF found = {}
        THEN {AddRecipeIngredient(
                  AddIngredient(d, [name |-> new_name, is_core |-> FALSE,
                                    cost |-> 0, weight |-> None]),
                  recipe, NextId(d))}
        ELSE {AddRecipeIngredient(d, recipe, id) : id \in found}

\* a line whose ingredient is given by id: int(ingredient_value), query.get
ImportExistingLine(d, recipe, ingredient_value) ==
    IF AllDigits(ingredient_value) /\ DigitsValue(ingredient_value) \in DOMAIN d.ingredients
    THEN {AddRecipeIngredient(d, recipe, DigitsValue(ingredient_value))}
    ELSE {d}

ImportLine(d, recipe, line) ==
    IF ~line.include THEN {d}
    ELSE IF line.ingredient_value = Chars("new")
    THEN ImportNewLine(d, recipe, Strip(line.newname))
    ELSE ImportExistingLine(d, recipe, line.ingredient_value)

\* the lines of the form from index i on
RECURSIVE ImportLines(_, _, _, _)
ImportLines(d, recipe, lines, i) ==
    IF i > Len(lines) THEN {d}
    ELSE UNION {ImportLines(e, recipe, lines, i + 1) : e \in ImportLine(d, recipe, lines[i])}

\* recipe_import_save: the stores it can leave
RecipeImportSaveResults(d, form) ==
    IF Strip(form.name) \in d.recipes THEN {d}
    ELSE ImportLines([d EXCEPT !.recipes = @ \cup {Strip(form.name)}],
                     Strip(form.name), form.lines, 1)

\* ingredient_delete without the statement that deletes the synonyms
IngredientDeleteKeepSynonyms(d, id) ==
    IF id \notin DOMAIN d.ingredients THEN Response(d, 404)
    ELSE Response(
             [WithoutIngredients(d, {id}) EXCEPT
                 !.recipe_ingredients = {ri \in @ : ri.ingredient_id # id},
                 !.pantry = @ \ {id}],
             302)

\* ingredient_delete
IngredientDeleteResult(d, id) ==
    IF id \notin DOMAIN d.ingredients THEN Response(d, 404)
    ELSE Response(
             [WithoutIngredients(d, {id}) EXCEPT
                 !.recipe_ingredients = {ri \in @ : ri.ingredient_id # id},
                 !.pantry = @ \ {id},
                 !.synonyms = {s \in @ : s.ingredient_id # id}],
             302)

\* ingredients_cleanup, step 1: rows are duplicates when their names are equal
\* after strip() and lower()
DuplicateKey(row) == LowerText(Strip(row.name))

DuplicatesOf(d, id) ==
    {j \in DOMAIN d.ingredients :
        DuplicateKey(d.ingredients[j]) = DuplicateKey(d.ingredients[id])}

\* False < True
Rank(b) == IF b THEN 1 ELSE 0

\* a sorts before b under key (cost > 0, weight is not None, -id), reverse=True
SortsBefore(d, a, b) ==
    LET ra == d.ingredients[a]
        rb == d.ingredients[b]
    IN  \/ Rank(ra.cost > 0) > Rank(rb.cost > 0)
        \/ /\ Rank(ra.cost > 0) = Rank(rb.cost > 0)
           /\ Rank(ra.weight # None) > Rank(rb.weight # None)
        \/ /\ Rank(ra.cost > 0) = Rank(rb.cost > 0)
           /\ Rank(ra.weight # None) = Rank(rb.weight # None)
           /\ -a > -b

\* duplicates[0] after the sort
Keeper(d, id) ==
    CHOOSE k \in DuplicatesOf(d, id) :
        \A other \in DuplicatesOf(d, id) \ {k} : SortsBefore(d, k, other)

\* duplicates[1:] of every group
Merged(d) == {id \in DOMAIN d.ingredients : Keeper(d, id) # id}

\* step 1: recipe lines moved to the keeper, pantry rows of the duplicates
\* deleted, the duplicates deleted
MergeDuplicates(d) ==
    [WithoutIngredients(d, Merged(d)) EXCEPT
        !.recipe_ingredients =
            {IF ri.ingredient_id \in Merged(d)
             THEN [ri EXCEPT !.ingredient_id = Keeper(d, ri.ingredient_id)]
             ELSE ri : ri \in @},
        !.pantry = @ \ Merged(d)]

\* steps 2 and 3: pantry rows and recipe lines of ingredients that are gone
RemoveOrphans(d) ==
    [d EXCEPT !.pantry = @ \cap DOMAIN d.ingredients,
              !.recipe_ingredients = {ri \in @ : ri.ingredient_id \in DOMAIN d.ingredients}]

\* step 4: used_ids | pantry_ids | core_ids
KeepIds(d) ==
    {ri.ingredient_id : ri \in d.recipe_ingredients}
        \cup d.pantry
        \cup {id \in DOMAIN d.ingredients : d.ingredients[id].is_core}

Unused(d) == DOMAIN d.ingredients \ KeepIds(d)

RemoveUnused(d) == WithoutIngredients(d, Unused(d))

\* the rows the four steps leave
Cleaned(d) == RemoveUnused(RemoveOrphans(MergeDuplicates(d)))

\* the flush of db.session.delete(ingredient): Ingredient.synonyms is a
\* backref without delete cascade, so the session first blanks ingredient_id
\* of the synonyms of a deleted ingredient; the column is NOT NULL, the
\* statement fails and the request ends with nothing committed
FlushDeletes(d, after) ==
    IF \E s \in d.synonyms : s.ingredient_id \in DOMAIN d.ingredients \ DOMAIN after.ingredients
    THEN Response(d, 500)
    ELSE Response(after, 302)

\* ingredients_cleanup
IngredientsCleanupResult(d) == FlushDeletes(d, Cleaned(d))

\* INGREDIENT_ALIASES.items() as texts, with the lower-cased forms migrate_data
\* compares
AliasTexts ==
    {[alias |-> Chars(p[1]), alias_lower |-> LowerText(Chars(p[1])),
      canonical_lower |-> LowerText(Chars(p[2]))] : p \in INGREDIENT_ALIASES}

\* migrate_data, step 1: the ingredients whose name is the canonical name of
\* an alias, and the aliases without a synonym row whose canonical ingredient
\* exists
CanonicalIds(d, a) ==
    {id \in DOMAIN d.ingredients : LowerText(d.ingredients[id].name) = a.canonical_lower}

Linkable(d) ==
    {a \in AliasTexts :
        /\ CanonicalIds(d, a) # {}
        /\ ~ \E s \in d.synonyms : LowerText(s.synonym) = a.alias_lower}

\* the synonym rows added when .first() returns pick[a] for each alias a
AddSynonyms(d, linkable, pick) ==
    [d EXCEPT !.synonyms =
        @ \cup {[synonym |-> a.alias, ingredient_id |-> pick[a]] : a \in linkable}]

\* pantry_add_from_ingredient
PantryAddResult(d, id) == [d EXCEPT !.pantry = @ \cup {id}]

(***************************************************************************)
(* Requests to the catalog routes                                          *)
(***************************************************************************)
\* the highest id the ingredient table gives out
MaxId == 2
\* lines of the import review form
MaxFormLines == 2

CatalogNames == {Chars(s) : s \in {"Egg", "S&P", "s&p"}}

CostInputs == {0, Scale}

AddForms == [name : CatalogNames \cup {<<>>}, is_core : {"", "1"}, cost : CostInputs]

EditForms == [name : CatalogNames \cup {<<>>}, is_core : {"", "1", "0"}, cost : CostInputs]

\* a line that names a new ingredient, a line that picks a stored one, and a
\* line left unchecked
ImportFormLines ==
    [include : {TRUE}, ingredient_value : {Chars("new")}, newname : CatalogNames \cup {<<>>}]
        \cup [include : {TRUE}, ingredient_value : {NatText(id) : id \in 1..MaxId},
              newname : {<<>>}]
        \cup [include : {FALSE}, ingredient_value : {Chars("new")}, newname : {Chars("Egg")}]

ImportForms == [name : {Chars("Soup")}, lines : SeqsUpTo(ImportFormLines, MaxFormLines)]

WithinBounds(d) == \A id \in DOMAIN d.ingredients : id <= MaxId

Served(route, status) == [pc |-> "done", route |-> route, status |-> status]

\* the empty catalog
CatalogInit ==
    /\ conv = Idle
    /\ shop = Idle
    /\ units = Idle
    /\ parse = Idle
    /\ match = Idle
    /\ web = Idle
    /\ db = [ingredients |-> [id \in {} |-> None], synonyms |-> {}, recipes |-> {},
             recipe_ingredients |-> {}, pantry |-> {}]

IngredientAdd ==
    \E form \in AddForms :
        \E r \in {IngredientAddResult(db, form)} :
          /\ WithinBounds(r.db)
          /\ db' = r.db
          /\ web' = Served("ingredient_add", r.status)
          /\ UNCHANGED <<conv, shop, units, parse, match>>

IngredientEdit ==
    \E id \in 1..MaxId, form \in EditForms :
        \E r \in {IngredientEditResult(db, id, form)} :
          /\ db' = r.db
          /\ web' = Served("ingredient_edit", r.status)
          /\ UNCHANGED <<conv, shop, units, parse, match>>

RecipeImportSave ==
    \E form \in ImportForms :
        \E d \in RecipeImportSaveResults(db, form) :
            /\ WithinBounds(d)
            /\ db' = d
            /\ web' = Served("recipe_import_save", 302)
            /\ UNCHANGED <<conv, shop, units, parse, match>>

IngredientDelete ==
    \E id \in 1..MaxId :
        \E r \in {IngredientDeleteResult(db, id)} :
          /\ db' = r.db
          /\ web' = Served("ingredient_delete", r.status)
          /\ UNCHANGED <<conv, shop, units, parse, match>>

IngredientsCleanup ==
    \E r \in {IngredientsCleanupResult(db)} :
        /\ db' = r.db
        /\ web' = Served("ingredients_cleanup", r.status)
        /\ UNCHANGED <<conv, shop, units, parse, match>>

MigrateData ==
    \E linkable \in {Linkable(db)} :
      \E pick \in [linkable -> DOMAIN db.ingredients] :
        /\ \A a \in linkable : pick[a] \in CanonicalIds(db, a)
        /\ db' = AddSynonyms(db, linkable, pick)
        /\ web' = Served("migrate_data", 302)
        /\ UNCHANGED <<conv, shop, units, parse, match>>

PantryAddFromIngredient ==
    \E id \in DOMAIN db.ingredients :
        /\ db' = PantryAddResult(db, id)
        /\ web' = Served("pantry_add_from_ingredient", 302)
        /\ UNCHANGED <<conv, shop, units, parse, match>>

\* the three routes that write ingredient names
NamesNext == IngredientAdd \/ IngredientEdit \/ RecipeImportSave

SpecNames == CatalogInit /\ [][NamesNext]_vars

\* the cleanup run on the catalogs the name-writing routes and the pantry
\* route build
CleanupNext ==
    \/ IngredientAdd
    \/ IngredientEdit
    \/ RecipeImportSave
    \/ PantryAddFromIngredient
    \/ IngredientsCleanup

SpecCleanup == CatalogInit /\ [][CleanupNext]_vars

\* the routes that write or delete synonyms, on the catalogs ingredient_add
\* builds
SynonymNext ==
    \/ IngredientAdd
    \/ PantryAddFromIngredient
    \/ MigrateData
    \/ IngredientDelete
    \/ IngredientsCleanup

SpecSynonyms == CatalogInit /\ [][SynonymNext]_vars

(***************************************************************************)
(* app.py: the meal plan                                                   *)
(***************************************************************************)
\* days of the week, 'for day in range(1, 8)', cut to MaxDay days
MaxDay == 3

Days == 1..MaxDay

\* The MealPlan table is the bag of its rows without their ids: equal rows
\* are counted, not merged.
\* MealPlan(week=1, day=day, meal_type=meal_type, recipe_id=recipe_id);
\* locked takes its default
Meal(day, meal_type, recipe_id) ==
    [week |-> 1, day |-> day, meal_type |-> meal_type,
     recipe_id |-> Some(recipe_id), locked |-> FALSE]

\* the rows of a bag that are in the set rows, with their counts
Rows(B, rows) == [m \in rows |-> B[m]]

\* MealPlan.query.filter_by(week=1, locked=True).all()
LockedMeals(d) == {m \in BagToSet(d.meals) : m.week = 1 /\ m.locked}

\* the keys of locked_meals
LockedSlots(d) == {<<m.day, m.meal_type>> : m \in LockedMeals(d)}

\* LockedRecipeIds that holds no recipe back
LockedRecipeIdsNone(d) == {m.recipe_id[1] : m \in {}}

\* {m.recipe_id for m in locked_meals.values() if m.recipe_id}
LockedRecipeIds(d) == {m.recipe_id[1] : m \in {x \in LockedMeals(d) : x.recipe_id # None}}

\* WithoutUnlocked that deletes nothing
WithoutUnlockedKeepAll(d) == d.meals

\* MealPlan.query.filter_by(week=1, locked=False).delete()
WithoutUnlocked(d) ==
    Rows(d.meals, {m \in BagToSet(d.meals) : ~(m.week = 1 /\ ~m.locked)})

\* [r for r in Recipe.query.filter_by(category=category).all()
\*  if r.id not in locked_recipe_ids]
Eligible(d, category, locked_recipe_ids) ==
    {r \in DOMAIN d.recipe_category :
        d.recipe_category[r] = category /\ r \notin locked_recipe_ids}

\* the orders random.shuffle can leave the recipes of S in
Shuffles(S) ==
    {p \in [1..Cardinality(S) -> S] : \A i, j \in 1..Cardinality(S) : i # j => p[i] # p[j]}

\* OpenDay that takes every day for open
OpenDayAlways(d, day, meal_type) == <<day, meal_type>> \notin {}

\* (day, meal_type) not in locked_meals
OpenDay(d, day, meal_type) == <<day, meal_type>> \notin LockedSlots(d)

\* the value of dinner_idx (dessert_idx) when the loop reaches day
IdxAt(d, day, meal_type) ==
    Cardinality({x \in Days : x < day /\ OpenDay(d, x, meal_type)})

\* the meals one loop over the days adds for the shuffled recipes
NewMeals(d, meal_type, shuffled) ==
    IF shuffled = <<>> THEN {}
    ELSE {Meal(day, meal_type, shuffled[(IdxAt(d, day, meal_type) % Len(shuffled)) + 1]) :
             day \in {x \in Days : OpenDay(d, x, meal_type)}}

\* meal_plan_randomize with the two shuffles drawn
MealPlanRandomizeResult(d, include_dessert, all_dinners, all_desserts) ==
    [d EXCEPT !.meals = WithoutUnlocked(d)
                            (+) SetToBag(NewMeals(d, "Dinner", all_dinners))
                            (+) (IF include_dessert
                                 THEN SetToBag(NewMeals(d, "Dessert", all_desserts))
                                 ELSE EmptyBag)]

\* meal_plan_lock on the row .first() returned
MealPlanLockResult(d, meal) ==
    [d EXCEPT !.meals = (@ (-) SetToBag({meal}))
                            (+) SetToBag({[meal EXCEPT !.locked = ~meal.locked]})]

\* MealPlan.query.filter_by(recipe_id=id).update({'recipe_id': None, 'locked': False})
Forget(m, id) ==
    IF m.recipe_id = Some(id) THEN [m EXCEPT !.recipe_id = None, !.locked = FALSE] ELSE m

\* recipe_delete(id): the plan forgets the recipe and unlocks its meals, the
\* recipe goes with its lines
RecipeDeleteResult(d, id) ==
    [d EXCEPT !.meals = BagOfAll(LAMBDA m : Forget(m, id), @),
              !.recipes = [r \in DOMAIN d.recipes \ {id} |-> d.recipes[r]],
              !.recipe_category = [r \in DOMAIN d.recipe_category \ {id} |->
                                       d.recipe_category[r]]]

(***************************************************************************)
(* app.py: the stored shopping list                                        *)
(***************************************************************************)
\* qty * 0.453592 and qty / 0.453592, in millionths
KgPerLb == 453592
Million == 1000000
\* cups = ml / 236.588 and tbsp = ml / 14.787, in thousandths
MlPerCup == 236588
MlPerTbsp == 14787
\* 'if qty <= 30' for ML
TbspUpToMl == 30

\* f"{value:.{dp}f}" for value >= 0
FixedText(value, dp) ==
    LET r == RoundRatio(value, 1, 1, dp) \div Pow10(DP4 - dp)
    IN  NatText(r \div Pow10(dp))
            \o (IF dp = 0 THEN <<>> ELSE <<".">> \o FractionText(r % Pow10(dp), dp))

\* format_shopping_qty(item)
FormatShoppingQty(item) ==
    IF item.unit = "LB"
    THEN FixedText(item.qty, DP2) \o Chars(" LB|")
             \o FixedText(RoundRatio(item.qty, KgPerLb, Million, DP2), DP2) \o Chars(" KG")
    ELSE IF item.unit = "KG"
    THEN FixedText(item.qty, DP2) \o Chars(" KG|")
             \o FixedText(RoundRatio(item.qty, Million, KgPerLb, DP2), DP2) \o Chars(" LB")
    ELSE IF item.unit = "L"
    THEN FixedText(item.qty, DP2) \o Chars(" L|")
             \o FloatToFraction(RoundRatio(item.qty, Million, MlPerCup, DP4)) \o Chars(" cups")
    ELSE IF item.unit = "ML"
    THEN IF item.qty <= TbspUpToMl * Scale
         THEN FixedText(item.qty, 0) \o Chars(" ML|")
                  \o FloatToFraction(RoundRatio(item.qty, 1000, MlPerTbsp, DP4))
                  \o Chars(" tbsp")
         ELSE FixedText(item.qty, 0) \o Chars(" ML|")
                  \o FloatToFraction(RoundRatio(item.qty, 1000, MlPerCup, DP4))
                  \o Chars(" cups")
    ELSE IF item.unit = "EA"
    THEN IF item.qty % Scale = 0 THEN NatText(item.qty \div Scale) ELSE FormatFloat(item.qty)
    ELSE FormatFloat(item.qty) \o <<" ">> \o Chars(item.unit)

\* ShoppingItem(name=..., quantity=..., category=...) of shopping_add; cost,
\* ingredient_id and source take their defaults
ManualItem(name, quantity, category) ==
    [name |-> name, quantity |-> quantity, category |-> category, cost |-> 0,
     ingredient_id |-> None, source |-> "manual"]

\* the ShoppingItem stored for one item of the generated list (the display
\* string unit_cost is left out)
StoredItem(item, source) ==
    [name |-> Chars(item.name), quantity |-> FormatShoppingQty(item),
     category |-> Chars(item.category), cost |-> item.cost,
     ingredient_id |-> Some(item.ingredient_id), source |-> source]

\* shopping_add(name, quantity, category)
ShoppingAddResult(d, name, quantity, category) ==
    IF Strip(name) # <<>>
    THEN [d EXCEPT !.shopping_items =
                       Append(@, ManualItem(Strip(name), Strip(quantity), category))]
    ELSE d

\* WithoutGenerated that clears the whole list
WithoutGeneratedOrManual(items) == SelectSeq(items, LAMBDA it : it.source \notin {it.source})

\* ShoppingItem.query.filter(ShoppingItem.source != 'manual').delete()
WithoutGenerated(items) == SelectSeq(items, LAMBDA it : ~(it.source # "manual"))

\* what a request that regenerates the list leaves: the rows, the status,
\* the items generate_shopping_list returned
Regenerated(d, source, ret) ==
    IF ret.raised THEN [db |-> d, status |-> 500, items |-> <<>>]
    ELSE [db |-> [d EXCEPT !.shopping_items =
                      WithoutGenerated(@)
                          \o [k \in 1..Len(ret.items) |-> StoredItem(ret.items[k], source)]],
          status |-> 302, items |-> ret.items]

\* int(recipe_id) accepts every text of request.form.getlist('recipes')
AllInts(recipe_ids) == \A k \in 1..Len(recipe_ids) : AllDigits(recipe_ids[k]) /\ recipe_ids[k] # <<>>

\* shopping_add_from_recipes with the form's 'recipes' values
ShoppingAddFromRecipesResult(d, recipe_ids) ==
    IF recipe_ids = <<>> THEN [db |-> d, status |-> 302, items |-> <<>>]
    ELSE IF ~AllInts(recipe_ids) THEN [db |-> d, status |-> 500, items |-> <<>>]
    ELSE Regenerated(d, "recipe",
                     GenerateShoppingList(d, [k \in 1..Len(recipe_ids) |->
                                                 DigitsValue(recipe_ids[k])], <<>>))

\* MealPlan.query.filter_by(week=1).all()
PlannedMeals(d) == {m \in BagToSet(d.meals) : m.week = 1}

\* PlannedRecipeIds listing the recipe of every planned meal
PlannedRecipeIdsPerMeal(d) ==
    {[k \in DOMAIN p |-> p[k].recipe_id[1]] :
        p \in Shuffles({x \in PlannedMeals(d) : x.recipe_id # None})}

\* {meal.recipe_id for meal in meals if meal.recipe_id}, in each order the
\* set can be iterated in
PlannedRecipeIds(d) ==
    Shuffles({m.recipe_id[1] : m \in {x \in PlannedMeals(d) : x.recipe_id # None}})

\* shopping_from_mealplan with recipe_ids iterated in the given order
ShoppingFromMealplanResult(d, recipe_ids) ==
    IF PlannedMeals(d) = {} THEN [db |-> d, status |-> 302, items |-> <<>>]
    ELSE Regenerated(d, "mealplan", GenerateShoppingList(d, recipe_ids, <<>>))

(***************************************************************************)
(* Requests to the meal plan and shopping list routes                      *)
(***************************************************************************)
\* manual items a list holds
MaxManual == 1

\* recipes 1 and 2 are dinners, recipe 3 is a dessert
PlanRecipes ==
    (1 :> <<Line(2, (3 * Scale) \div 10, "LB"), Line(3, (21 * Scale) \div 10, "EA")>>)
 @@ (2 :> <<Line(1, 200 * Scale, "G"), Line(3, Scale, "EA")>>)
 @@ (3 :> <<Line(5, Scale, "cup")>>)

PlanCategories == (1 :> "Dinner") @@ (2 :> "Dinner") @@ (3 :> "Dessert")

\* values of the form field 'recipes'; 9 is no recipe, x is no number
RecipeIdTexts == {Chars(s) : s \in {"1", "3", "9", "x"}}

\* names typed into the shopping list: nothing but blanks, or Salt
ManualNames == {Chars(s) : s \in {" ", " Salt"}}

MealTypes == {"Dinner", "Dessert"}

\* the recipes stored, no meal planned, nothing on the list
PlanInit ==
    /\ conv = Idle
    /\ shop = Idle
    /\ units = Idle
    /\ parse = Idle
    /\ match = Idle
    /\ web = Idle
    /\ db = [ingredients |-> IngredientRows, recipes |-> PlanRecipes,
             recipe_category |-> PlanCategories, pantry |-> {}, useup |-> {2},
             meals |-> EmptyBag, shopping_items |-> <<>>]

\* POST /mealplan/randomize
MealPlanRandomize ==
    /\ \E include_dessert \in BOOLEAN,
          all_dinners \in Shuffles(Eligible(db, "Dinner", LockedRecipeIds(db))),
          all_desserts \in Shuffles(Eligible(db, "Dessert", LockedRecipeIds(db))) :
          /\ db' = MealPlanRandomizeResult(db, include_dessert, all_dinners, all_desserts)
          /\ web' = [pc |-> "done", route |-> "meal_plan_randomize", status |-> 302,
                     include_dessert |-> include_dessert]
    /\ UNCHANGED <<conv, shop, units, parse, match>>

\* POST /mealplan/lock/<day>/<meal_type>
MealPlanLock ==
    /\ \E day \in Days, meal_type \in MealTypes :
          \/ /\ \A m \in PlannedMeals(db) : ~(m.day = day /\ m.meal_type = meal_type)
             /\ db' = db
          \/ \E meal \in {m \in PlannedMeals(db) : m.day = day /\ m.meal_type = meal_type} :
                 db' = MealPlanLockResult(db, meal)
    /\ web' = Served("meal_plan_lock", 302)
    /\ UNCHANGED <<conv, shop, units, parse, match>>

\* POST /recipe/<id>/delete
RecipeDelete ==
    /\ \E id \in DOMAIN PlanRecipes :
          IF id \in DOMAIN db.recipes
          THEN db' = RecipeDeleteResult(db, id) /\ web' = Served("recipe_delete", 302)
          ELSE db' = db /\ web' = Served("recipe_delete", 404)
    /\ UNCHANGED <<conv, shop, units, parse, match>>

\* POST /shopping/add
ShoppingAdd ==
    /\ Len(SelectSeq(db.shopping_items, LAMBDA it : it.source = "manual")) < MaxManual
    /\ \E name \in ManualNames :
          db' = ShoppingAddResult(db, name, Chars("2 "), Chars("Other"))
    /\ web' = Served("shopping_add", 302)
    /\ UNCHANGED <<conv, shop, units, parse, match>>

\* POST /shopping/add-from-recipes
ShoppingAddFromRecipes ==
    /\ \E recipe_ids \in SeqsUpTo(RecipeIdTexts, MaxSelected) :
          \E r \in {ShoppingAddFromRecipesResult(db, recipe_ids)} :
              /\ db' = r.db
              /\ web' = [pc |-> "done", route |-> "shopping_add_from_recipes",
                         status |-> r.status, recipe_ids |-> recipe_ids,
                         items |-> r.items]
    /\ UNCHANGED <<conv, shop, units, parse, match>>

\* POST /mealplan/shopping
ShoppingFromMealplan ==
    /\ \E recipe_ids \in PlannedRecipeIds(db) :
          \E r \in {ShoppingFromMealplanResult(db, recipe_ids)} :
              /\ db' = r.db
              /\ web' = [pc |-> "done", route |-> "shopping_from_mealplan",
                         status |-> r.status,
                         recipe_ids |-> IF PlannedMeals(db) = {} THEN <<>> ELSE recipe_ids,
                         items |-> r.items]
    /\ UNCHANGED <<conv, shop, units, parse, match>>

PlanNext == MealPlanRandomize \/ MealPlanLock \/ RecipeDelete

SpecPlan == PlanInit /\ [][PlanNext]_vars

StoredNext ==
    \/ ShoppingAdd
    \/ ShoppingAddFromRecipes
    \/ MealPlanRandomize
    \/ RecipeDelete
    \/ ShoppingFromMealplan

SpecStored == PlanInit /\ [][StoredNext]_vars


(***************************************************************************)
(* Calls of the three readers over one catalog                             *)
(***************************************************************************)
\* requests that generate a shopping list at the same time
MaxThreads == 2

Threads == 1..MaxThreads

\* the rest of generate_shopping_list, from 'shopping_items = []' on, for
\* the consolidated dict the loops have built
ShoppingListOf(acc) ==
    LET items    == SortItems([k \in 1..Len(acc.consolidated) |->
                                  ShoppingItemOf(acc.consolidated[k])])
        subtotal == SumCosts(items)
    IN  [raised       |-> acc.raised,
         consolidated |-> acc.consolidated,
         items        |-> IF acc.raised THEN <<>> ELSE items,
         subtotal     |-> IF acc.raised THEN 0 ELSE Round2(subtotal),
         tax          |-> IF acc.raised THEN 0 ELSE RoundRatio(subtotal, TaxRate, Scale, DP2),
         total        |-> IF acc.raised THEN 0
                          ELSE RoundRatio(subtotal, Scale + TaxRate, Scale, DP2)]

\* the locals of a call of generate_shopping_list that has not begun
NoCall ==
    [pc |-> "idle", recipe_ids |-> <<>>, multipliers |-> <<>>, pantry_ids |-> {},
     acc |-> [raised |-> FALSE, consolidated |-> <<>>], next |-> 1,
     ret |-> ShoppingListOf([raised |-> FALSE, consolidated |-> <<>>])]

\* AccOf with one consolidated dict for all the calls
AccOfFirst(calls, t) == calls[1].acc

\* the consolidated dict of call t, a local of the call
AccOf(calls, t) == calls[t].acc

\* the name column of the Ingredient table, rows by id
NameColumn(d) == [i \in 1..Cardinality(DOMAIN d.ingredients) |-> Chars(d.ingredients[i].name)]

\* names looked up while the lists are generated
ReaderNames == {Chars(s) : s \in {"lemons", "Fresh Milk", "zest"}}

\* one catalog: the ingredients, a synonym of Lemon, three recipes, Flour at
\* hand, Chicken Breast to use up, one item typed into the shopping list
ReadersInit ==
    /\ conv = Idle
    /\ units = Idle
    /\ parse = Idle
    /\ web = Idle
    /\ match = [pc |-> "call"]
    /\ shop = [t \in Threads |-> NoCall]
    /\ db = [ingredients |-> IngredientRows,
             synonyms |-> {[synonym |-> Chars("Zest"), ingredient_id |-> 3]},
             recipes |-> PlanRecipes,
             pantry |-> {[ingredient_id |-> 1, have_it |-> TRUE]},
             useup |-> {2},
             shopping_items |-> <<ManualItem(Chars("Salt"), Chars("2"), Chars("Other"))>>]

\* call t enters generate_shopping_list and runs its queries for the pantry
GenerateEnter(t) ==
    /\ shop[t].pc = "idle"
    /\ \E recipe_ids \in SeqsUpTo(RequestedIds, MaxSelected),
          multipliers \in MultiplierChoices :
          shop' = [shop EXCEPT ![t] = [NoCall EXCEPT !.pc = "loop",
                                                     !.recipe_ids = recipe_ids,
                                                     !.multipliers = multipliers,
                                                     !.pantry_ids = PantryIds(db)]]
    /\ UNCHANGED <<conv, db, units, parse, match, web>>

\* call t reads the next recipe and its lines
GenerateRecipe(t) ==
    /\ shop[t].pc = "loop"
    /\ shop[t].next <= Len(shop[t].recipe_ids)
    /\ shop' = [shop EXCEPT ![t].acc = ConsolidateRecipe(db, shop[t].pantry_ids,
                                                         AccOf(shop, t),
                                                         shop[t].recipe_ids[shop[t].next],
                                                         shop[t].multipliers),
                            ![t].next = @ + 1]
    /\ UNCHANGED <<conv, db, units, parse, match, web>>

\* call t builds the list and returns
GenerateReturn(t) ==
    /\ shop[t].pc = "loop"
    /\ shop[t].next > Len(shop[t].recipe_ids)
    /\ shop' = [shop EXCEPT ![t].pc = "done", ![t].ret = ShoppingListOf(shop[t].acc)]
    /\ UNCHANGED <<conv, db, units, parse, match, web>>

\* a call of find_ingredient_match
ReaderFindMatch ==
    /\ match.pc = "call"
    /\ \E raw_name \in ReaderNames :
          match' = [pc |-> "done", fn |-> "find_ingredient_match", name |-> raw_name,
                    ret |-> FindIngredientMatch(raw_name, NameColumn(db), db.synonyms)]
    /\ UNCHANGED <<conv, db, shop, units, parse, web>>

\* a call of get_ingredient_suggestions
ReaderSuggest ==
    /\ match.pc = "call"
    /\ \E normalized_name \in ReaderNames :
          match' = [pc |-> "done", fn |-> "get_ingredient_suggestions",
                    name |-> normalized_name,
                    ret |-> GetIngredientSuggestions(normalized_name, NameColumn(db),
                                                     MaxLimit)]
    /\ UNCHANGED <<conv, db, shop, units, parse, web>>

ReadersNext ==
    \/ \E t \in Threads : GenerateEnter(t)
    \/ \E t \in Threads : GenerateRecipe(t)
    \/ \E t \in Threads : GenerateReturn(t)
    \/ ReaderFindMatch
    \/ ReaderSuggest

SpecReaders == ReadersInit /\ [][ReadersNext]_vars

(***************************************************************************)
(* Properties of convert_to_base_unit                                      *)
(***************************************************************************)
\* the unit a token stands for: unset means EA, case is ignored
CanonUnit(tok) ==
    CASE tok \in {"", "EA", "Ea"} -> "EA"
      [] tok \in {"G", "g"}       -> "G"
      [] tok \in {"KG", "kg"}     -> "KG"
      [] OTHER                    -> tok

\* the formula a token stands for: unset means COUNT, case is ignored
CanonFormula(tok) ==
    CASE tok = ""                        -> "COUNT"
      [] tok \in {"PACKAGE", "Package"}  -> "PACKAGE"
      [] OTHER                           -> tok

IsCountUnit(tok) == CanonUnit(tok) \notin (WEIGHT_UNITS \cup VOLUME_UNITS)

\* decimals the WEIGHT and VOLUME formulas keep for a base unit
DecimalsOf(base) == IF base \in {"KG", "LB", "L", "CUP"} THEN DP4 ELSE DP2

ConvDone == conv.pc = "done"
ConvFormula == CanonFormula(conv.ingredient.cost_formula)
ConvFrom == CanonUnit(conv.from_unit)
ConvBase == CanonUnit(conv.ingredient.base_unit)

\* C1: for a PACKAGE ingredient with pkg_count > 0 and a from_unit that is
\* neither a weight nor a volume unit, convert_to_base_unit returns
\* qty / pkg_count rounded to 4 decimals, also when from_unit equals base_unit.
C1_PackageDivides ==
    (/\ ConvDone
     /\ ConvFormula = "PACKAGE"
     /\ conv.ingredient.pkg_count > 0
     /\ IsCountUnit(conv.from_unit))
    => conv.ret = Return(RoundRatio(conv.qty, Scale, conv.ingredient.pkg_count, DP4))

\* 2 EA of a PACKAGE ingredient priced per EA with pkg_count 12 gives 0.1667
C1_Witness ==
    /\ ConvDone
    /\ conv.ingredient.cost_formula = "PACKAGE"
    /\ conv.ingredient.base_unit = "EA"
    /\ conv.from_unit = "EA"
    /\ conv.ingredient.pkg_count = 12 * Scale
    /\ conv.qty = 2 * Scale
    /\ conv.ret = Return(1667)

\* C2: for every formula other than PACKAGE, when from_unit equals base_unit
\* ignoring case, convert_to_base_unit returns qty exactly as given, whatever
\* auxiliary fields are set.
C2_SameUnitUnchanged ==
    (/\ ConvDone
     /\ ConvFormula # "PACKAGE"
     /\ ConvFrom = ConvBase)
    => conv.ret = Return(conv.qty)

\* 0.126 g of a PORTION ingredient priced per G, every auxiliary field set
C2_Witness ==
    /\ ConvDone
    /\ conv.ingredient.cost_formula = "PORTION"
    /\ conv.ingredient.base_unit = "G"
    /\ conv.from_unit = "g"
    /\ conv.ingredient.portion_g # 0
    /\ conv.ingredient.portion_ml # 0
    /\ conv.ingredient.piece_weight_g # 0
    /\ conv.ingredient.pkg_count > 0
    /\ conv.qty = SmallQty
    /\ conv.ret = Return(SmallQty)

\* the cases in which no valid conversion exists
NoValidConversion ==
    \/ /\ ConvFormula = "WEIGHT"
       /\ \/ ConvFrom \in VOLUME_UNITS
          \/ ConvBase \notin WEIGHT_UNITS
    \/ /\ ConvFormula = "VOLUME"
       /\ \/ ConvFrom \notin VOLUME_UNITS
          \/ ConvBase \notin VOLUME_UNITS
    \/ /\ ConvFormula = "PORTION"
       /\ \/ ConvFrom \in VOLUME_UNITS /\ conv.ingredient.portion_ml = 0
          \/ ConvFrom \in WEIGHT_UNITS /\ conv.ingredient.portion_g = 0
    \/ /\ ConvFormula = "PACKAGE"
       /\ \/ conv.ingredient.pkg_count <= 0
          \/ ConvFrom \in WEIGHT_UNITS \cup VOLUME_UNITS

\* C3: convert_to_base_unit never raises (no branch divides by zero), and
\* returns qty unchanged whenever no valid conversion exists.
C3_FailsClosed ==
    ConvDone =>
        /\ ~conv.ret.raised
        /\ NoValidConversion => conv.ret.value = conv.qty

\* a PORTION ingredient asked for cups with portion_ml unset but portion_g set
C3_Witness ==
    /\ ConvDone
    /\ conv.ingredient.cost_formula = "PORTION"
    /\ conv.from_unit = "CUP"
    /\ conv.ingredient.base_unit = "EA"
    /\ conv.ingredient.portion_ml = 0
    /\ conv.ingredient.portion_g # 0
    /\ conv.ret = Return(conv.qty)

\* piece weight in grams the claim expects for the names of the model
ExpectedPieceWeight(ingredient) ==
    IF ingredient.piece_weight_g # 0 THEN ingredient.piece_weight_g
    ELSE CASE ingredient.name = "Chicken Breast" -> 225 * Scale
           [] ingredient.name = "Green Onion"    -> 30 * Scale
           [] ingredient.name = "Green Onions"   -> 225 * Scale
           [] OTHER                              -> 0

\* C4: for a WEIGHT ingredient whose base_unit is a weight unit and a count
\* from_unit, the result is qty x piece weight expressed in base_unit with the
\* WEIGHT rounding, the piece weight being piece_weight_g when set and
\* otherwise the average-weight entry for the name (exact key first, then a
\* contained key); with neither, qty is returned unchanged.
C4_PieceWeight ==
    (/\ ConvDone
     /\ ConvFormula = "WEIGHT"
     /\ ConvBase \in WEIGHT_UNITS
     /\ IsCountUnit(conv.from_unit))
    => IF ExpectedPieceWeight(conv.ingredient) = 0
       THEN conv.ret = Return(conv.qty)
       ELSE conv.ret = Return(RoundRatio(conv.qty, ExpectedPieceWeight(conv.ingredient),
                                         WEIGHT_TO_G[ConvBase], DecimalsOf(ConvBase)))

\* 2 EA with piece_weight_g = 225 and base unit KG gives 0.45, for a name
\* the table does not know
C4_Witness ==
    /\ ConvDone
    /\ conv.ingredient.cost_formula = "WEIGHT"
    /\ conv.ingredient.base_unit = "KG"
    /\ conv.ingredient.name = "Saffron"
    /\ conv.ingredient.piece_weight_g = 225 * Scale
    /\ conv.from_unit = "EA"
    /\ conv.qty = 2 * Scale
    /\ conv.ret = Return(4500)

\* C5: WEIGHT between two different weight units gives
\* qty x grams(from) / grams(base), VOLUME between two different volume units
\* gives qty x ml(from) / ml(base), rounded to 2 decimals for G, OZ, ML, TBSP
\* and TSP and to 4 decimals for KG, LB, L and CUP.
C5_SameFamilyConversion ==
    /\ (/\ ConvDone
        /\ ConvFormula = "WEIGHT"
        /\ ConvFrom \in WEIGHT_UNITS
        /\ ConvBase \in WEIGHT_UNITS
        /\ ConvFrom # ConvBase)
       => conv.ret = Return(RoundRatio(conv.qty, WEIGHT_TO_G[ConvFrom],
                                       WEIGHT_TO_G[ConvBase], DecimalsOf(ConvBase)))
    /\ (/\ ConvDone
        /\ ConvFormula = "VOLUME"
        /\ ConvFrom \in VOLUME_UNITS
        /\ ConvBase \in VOLUME_UNITS
        /\ ConvFrom # ConvBase)
       => conv.ret = Return(RoundRatio(conv.qty, VOLUME_TO_ML[ConvFrom],
                                       VOLUME_TO_ML[ConvBase], DecimalsOf(ConvBase)))

\* 0.126 g in KG is 0.0001 (4 decimals kept)
C5_Witness ==
    /\ ConvDone
    /\ conv.ingredient.cost_formula = "WEIGHT"
    /\ conv.from_unit = "g"
    /\ conv.ingredient.base_unit = "KG"
    /\ conv.qty = SmallQty
    /\ conv.ret = Return(1)

(***************************************************************************)
(* Properties of generate_shopping_list                                    *)
(***************************************************************************)
ShopDone == shop.pc = "done"

\* the returned lines and the ingredient ids they carry
Items == shop.ret.items
ItemIds == {Items[k].ingredient_id : k \in 1..Len(Items)}
ItemOf(i) == Items[CHOOSE k \in 1..Len(Items) : Items[k].ingredient_id = i]

\* the running totals before minimum purchase and EA rounding
Totals == shop.ret.consolidated
TotalOf(i) == Totals[CHOOSE k \in 1..Len(Totals) : Totals[k].ingredient_id = i].qty

\* <<p, l>>: entry p of recipe_ids is a stored recipe whose line l uses ingredient i
Occurrences(i) ==
    UNION {{<<p, l>> : l \in {l \in 1..Len(db.recipes[shop.recipe_ids[p]]) :
                                 db.recipes[shop.recipe_ids[p]][l].ingredient_id = i}}
           : p \in {p \in 1..Len(shop.recipe_ids) : shop.recipe_ids[p] \in DOMAIN db.recipes}}

\* the multiplier of a recipe, 1.0 when the request gives none
MultiplierOf(r) == IF r \in DOMAIN shop.multipliers THEN shop.multipliers[r] ELSE Scale

\* convert_to_base_unit(quantity x multiplier, unit, ingredient) of one occurrence
ConvertedQty(pl, i) ==
    LET r  == shop.recipe_ids[pl[1]]
        ri == db.recipes[r][pl[2]]
    IN  ConvertToBaseUnit(Times(ri.quantity, MultiplierOf(r)), ri.unit, db.ingredients[i]).value

RECURSIVE SumConverted(_, _)
SumConverted(S, i) ==
    IF S = {} THEN 0
    ELSE LET pl == CHOOSE x \in S : TRUE
         IN  ConvertedQty(pl, i) + SumConverted(S \ {pl}, i)

\* C6: the result has exactly one line per included ingredient id, and before
\* minimum purchase and EA rounding the quantity of that line is the sum, over
\* every line of that ingredient in every entry of recipe_ids, of
\* convert_to_base_unit(quantity x multiplier, unit, ingredient), with multiplier
\* 1.0 for a recipe absent from multipliers; different ids are never merged.
C6_SumPerIngredient ==
    ShopDone =>
        /\ ~shop.ret.raised
        /\ Len(Items) = Len(Totals)
        /\ \A j, k \in 1..Len(Items) : Items[j].ingredient_id = Items[k].ingredient_id => j = k
        /\ ItemIds = {Totals[k].ingredient_id : k \in 1..Len(Totals)}
        /\ \A k \in 1..Len(Totals) :
              Totals[k].qty = SumConverted(Occurrences(Totals[k].ingredient_id),
                                           Totals[k].ingredient_id)

\* two recipes each using 200 G of Flour at 0.01 per G: one line of 400 G costing 4.00
C6_Witness ==
    /\ ShopDone
    /\ db.recipes[1] = <<Line(1, 200 * Scale, "G")>>
    /\ db.recipes[2] = <<Line(1, 200 * Scale, "G")>>
    /\ db.pantry = {}
    /\ shop.recipe_ids = <<1, 2>>
    /\ shop.multipliers = <<>>
    /\ Len(Items) = 1
    /\ Items[1].ingredient_id = 1
    /\ Items[1].qty = 400 * Scale
    /\ Items[1].unit = "G"
    /\ Items[1].cost = 4 * Scale

\* ingredients the request reaches: some entry of recipe_ids is a stored recipe
\* holding a line that references the stored ingredient
Reached == {i \in DOMAIN db.ingredients : Occurrences(i) # {}}

AtHand == {ps.ingredient_id : ps \in {s \in db.pantry : s.have_it = TRUE}}

NamedWater == {i \in DOMAIN db.ingredients :
                  db.ingredients[i].name \in {"water", "Water", "WATER"}}

\* C7: an ingredient has a line in the result if and only if some id of
\* recipe_ids is a stored recipe holding a line that references the stored
\* ingredient, it has no pantry staple with have_it = true, and its name is not
\* "water" ignoring case; unknown recipe ids and lines of deleted ingredients
\* raise no error.
C7_IncludedIngredients ==
    ShopDone =>
        /\ ~shop.ret.raised
        /\ ItemIds = (Reached \ AtHand) \ NamedWater

\* a request naming an unknown recipe and a recipe with a line of WATER and a
\* line of Flour whose staple is not at hand: only Flour is listed
C7_Witness ==
    /\ ShopDone
    /\ db.pantry = {[ingredient_id |-> 1, have_it |-> FALSE]}
    /\ db.recipes[1] = <<Line(4, Scale, "CUP"), Line(1, 200 * Scale, "G")>>
    /\ shop.recipe_ids = <<9, 1>>
    /\ ItemIds = {1}

\* min_purchase of a stored ingredient, 1.0 when unset
MinPurchaseOf(i) ==
    IF db.ingredients[i].min_purchase = 0 THEN Scale ELSE db.ingredients[i].min_purchase

\* C8: for every line, a total below the ingredient's min_purchase is raised
\* to exactly min_purchase (for EA, see C9) and a total at or above it is never
\* lowered, so that no line's quantity is below the minimum purchase quantity.
C8_MinimumPurchase ==
    ShopDone =>
        \A i \in ItemIds :
            /\ ItemOf(i).qty >= MinPurchaseOf(i)
            /\ (TotalOf(i) < MinPurchaseOf(i) /\ ItemOf(i).unit # "EA")
                   => ItemOf(i).qty = MinPurchaseOf(i)
            /\ TotalOf(i) >= MinPurchaseOf(i) => ItemOf(i).qty >= TotalOf(i)

\* the smallest whole number that is at least x
CeilingOf(x) == Scale * (CHOOSE n \in 0..((x \div Scale) + 1) :
                            n * Scale >= x /\ (n - 1) * Scale < x)

MaxOf(x, y) == IF x >= y THEN x ELSE y

\* C9: for every line whose base unit is EA the quantity is a whole number,
\* the ceiling of max(aggregated total, min_purchase): the minimum is applied
\* before the ceiling and the quantity is never rounded down.
C9_WholeEach ==
    ShopDone =>
        \A i \in ItemIds :
            db.ingredients[i].base_unit = "EA" =>
                /\ ItemOf(i).qty % Scale = 0
                /\ ItemOf(i).qty = CeilingOf(MaxOf(TotalOf(i), MinPurchaseOf(i)))
                /\ ItemOf(i).qty >= TotalOf(i)

\* 2.1 Lemon aggregated (min_purchase 2.5) gives 3
C9_Witness ==
    /\ ShopDone
    /\ 3 \in ItemIds
    /\ TotalOf(3) = (21 * Scale) \div 10
    /\ ItemOf(3).unit = "EA"
    /\ ItemOf(3).qty = 3 * Scale

\* the quantity a line is priced at: after minimum purchase and EA rounding
PricedQty(i) ==
    LET raised == MaxOf(TotalOf(i), MinPurchaseOf(i))
    IN  IF db.ingredients[i].base_unit = "EA" THEN CeilingOf(raised) ELSE raised

RECURSIVE SumOfCosts(_)
SumOfCosts(ids) ==
    IF ids = {} THEN 0
    ELSE LET i == CHOOSE x \in ids : TRUE
         IN  ItemOf(i).cost + SumOfCosts(ids \ {i})

\* C10: each line's cost is its quantity after minimum purchase and EA
\* rounding times the cost per base unit, rounded to 2 decimals; subtotal is the
\* sum of the line costs, tax is 12% of subtotal rounded to 2 decimals, and
\* total = subtotal + tax to the cent (all three 0 for an empty result).
C10_CostsAndTotals ==
    ShopDone =>
        /\ \A i \in ItemIds :
              ItemOf(i).cost = RoundRatio(PricedQty(i), db.ingredients[i].cost, Scale, DP2)
        /\ shop.ret.subtotal = SumOfCosts(ItemIds)
        /\ shop.ret.tax = RoundRatio(shop.ret.subtotal, 12, 100, DP2)
        /\ shop.ret.total = shop.ret.subtotal + shop.ret.tax
        /\ Items = <<>> => shop.ret.subtotal = 0 /\ shop.ret.tax = 0 /\ shop.ret.total = 0

\* 0.3 LB of Chicken Breast raised to 1.0 LB at 3.99: 3.99 + 0.48 = 4.47
C10_Witness ==
    /\ ShopDone
    /\ ItemIds = {2}
    /\ TotalOf(2) = (3 * Scale) \div 10
    /\ ItemOf(2).qty = Scale
    /\ ItemOf(2).cost = 39900
    /\ shop.ret.subtotal = 39900
    /\ shop.ret.tax = 4800
    /\ shop.ret.total = 44700

(***************************************************************************)
(* Properties of convert_unit                                              *)
(***************************************************************************)
UnitConverted == units.pc \in {"converted", "back"}

\* a unit token with its case ignored
TokenIgnoringCase(tok) ==
    CASE tok = "lb"  -> "LB"
      [] tok = "Cup" -> "CUP"
      [] tok = "ea"  -> "EA"
      [] OTHER       -> tok

\* the family of a unit token, compared ignoring case: "G", "ML" or "none"
FamilyOf(u) ==
    IF TokenIgnoringCase(u) \in {"G", "KG", "OZ", "LB"} THEN "G"
    ELSE IF TokenIgnoringCase(u) \in {"ML", "L", "CUP", "TBSP", "TSP"} THEN "ML"
    ELSE "none"

\* the call has nothing to convert: a unit outside the table or two families
NoUnitConversion ==
    \/ FamilyOf(units.from_unit) = "none"
    \/ FamilyOf(units.to_unit) = "none"
    \/ FamilyOf(units.from_unit) # FamilyOf(units.to_unit)

\* C11 as stated: convert_unit never raises and, when a unit is missing from
\* the table or the units are of different families, returns the original
\* quantity together with from_unit as it was passed.
C11_ReturnsFromUnitAsPassed ==
    UnitConverted =>
        /\ ~units.ret.raised
        /\ NoUnitConversion => units.ret.value = <<units.qty, units.from_unit>>

\* C11 (amended): convert_unit never raises for string unit tokens; whenever
\* either unit is missing from the conversion table or the two units belong
\* to different families it returns the original quantity together with
\* from_unit in upper case; tokens are compared ignoring case, and a quantity
\* is converted only between two units of the same family.
C11_NoConversionUppercased ==
    UnitConverted =>
        /\ ~units.ret.raised
        /\ NoUnitConversion =>
              /\ units.ret.value[1] = units.qty
              /\ units.ret.value[2] = TokenIgnoringCase(units.from_unit)
        /\ units.ret.value[1] # units.qty =>
              /\ FamilyOf(units.from_unit) # "none"
              /\ FamilyOf(units.from_unit) = FamilyOf(units.to_unit)
              /\ units.ret.value[2] = TokenIgnoringCase(units.to_unit)

\* 4 "lb" to "ML" comes back as 4 "LB"
C11_Witness ==
    /\ units.pc = "converted"
    /\ units.qty = 4 * Scale
    /\ units.from_unit = "lb"
    /\ units.to_unit = "ML"
    /\ units.ret = Return(<<4 * Scale, "LB">>)

AbsDiff(x, y) == IF x >= y THEN x - y ELSE y - x

\* C12: for q >= 0 and every ordered pair (a, b) of weight units, converting q
\* from a to b and the result back from b to a yields a value within 0.01 of q.
C12_WeightRoundTrip ==
    (/\ units.pc = "back"
     /\ units.from_unit \in {"G", "KG", "OZ", "LB"}
     /\ units.to_unit \in {"G", "KG", "OZ", "LB"})
        => AbsDiff(units.back.value[1], units.qty) <= Scale \div 100

(***************************************************************************)
(* Properties of parse_fraction, float_to_fraction and parse_ingredient    *)
(***************************************************************************)
ParseDone == parse.pc = "done"
FractionDone == ParseDone /\ parse.fn = "parse_fraction"
LineDone == ParseDone /\ parse.fn = "parse_ingredient"

\* quantity texts that cannot be evaluated: zero denominator, non-numeric parts
BadFractionTexts == {Chars("1/0"), Chars("x/y")}
BadQuantityTokens == {Chars("1/0"), Chars("1 1/0"), Chars("x/y")}

\* the units parse_ingredient can return
UnitNames == {UNIT_MAPPINGS[w] : w \in DOMAIN UNIT_MAPPINGS} \cup {"EA"}

\* C13: no parser raises on a quantity it cannot evaluate: parse_fraction
\* returns default (raised to min_val when one is given) for "1/0" and "x/y",
\* and parse_ingredient returns quantity 1.0 with a unit and a name for every
\* line whose leading quantity token cannot be evaluated.
C13_NoParserRaises ==
    /\ (FractionDone /\ parse.value \in {Some(t) : t \in BadFractionTexts})
           => parse.ret = Return(ClampToMin(parse.default, parse.min_val))
    /\ (LineDone /\ parse.quantity \in BadQuantityTokens)
           => /\ ~parse.ret.raised
              /\ parse.ret.value[1] = Scale
              /\ parse.ret.value[2] \in UnitNames

\* C14: parse_fraction substitutes default when the parsed total is <= 0 and
\* then clamps upward to min_val, so for every input text, an empty or missing
\* one included, the returned value is at least min_val whenever min_val is given.
C14_AtLeastMinVal ==
    (FractionDone /\ parse.min_val # None)
        => ~parse.ret.raised /\ parse.ret.value >= parse.min_val[1]

\* the value of a fraction character in UNICODE_FRACTIONS
GlyphValue(g) ==
    UNICODE_FRACTIONS[CHOOSE n \in 1..Len(UNICODE_FRACTIONS) : UNICODE_FRACTIONS[n][1] = g][2]

\* C15: parse_fraction accepts each of the 15 fraction characters: one alone
\* parses to its value, and one after the digit 1, with or without a space
\* between them, parses as the mixed number.
C15_GlyphsAccepted ==
    \A g \in GlyphChars :
        /\ (FractionDone /\ parse.value = Some(<<g>>))
               => parse.ret = Return(ClampToMin(GlyphValue(g), parse.min_val))
        /\ (FractionDone /\ parse.value \in {Some(<<"1", g>>), Some(<<"1", " ", g>>)})
               => parse.ret = Return(ClampToMin(Scale + GlyphValue(g), parse.min_val))

\* the nine common fractions and the text each is displayed as
NineFractions ==
    {<<1250, "1/8">>, <<2500, "1/4">>, <<3333, "1/3">>, <<3750, "3/8">>, <<5000, "1/2">>,
     <<6250, "5/8">>, <<6667, "2/3">>, <<7500, "3/4">>, <<8750, "7/8">>}

\* C16: for each of the nine common fractions f, float_to_fraction(f) returns
\* the tabulated fraction string, and parse_fraction applied to that string
\* returns a value within 0.01 of f.
C16_FractionRoundTrip ==
    \A p \in NineFractions :
        (parse.fn = "float_to_fraction" /\ parse.value = p[1])
            => /\ parse.pc \in {"formatted", "done"} => parse.text = Chars(p[2])
               /\ parse.pc = "done"
                      => /\ ~parse.ret.raised
                         /\ AbsDiff(parse.ret.value, p[1]) <= Scale \div 100

\* 1/3 is displayed as "1/3", which parses back to 0.3333
C16_Witness ==
    /\ ParseDone
    /\ parse.fn = "float_to_fraction"
    /\ parse.value = 3333
    /\ parse.text = <<"1", "/", "3">>
    /\ parse.ret = Return(3333)

FlourLine == Chars("1 1/2 cups all-purpose flour, sifted")

\* C17 as stated: parse_ingredient("1 1/2 cups all-purpose flour, sifted")
\* returns quantity 1.5, unit "CUP" and name "All Purpose Flour".
C17_AllPurposeFlour ==
    (LineDone /\ parse.line = FlourLine)
        => parse.ret = Return(<<(3 * Scale) \div 2, "CUP", Chars("All Purpose Flour")>>)

\* C17: parse_ingredient("1 1/2 cups all-purpose flour, sifted") returns
\* quantity 1.5, unit "CUP" and name "All-purpose Flour": the mixed fraction is
\* the quantity, the unit word is consumed, the clause "sifted" is dropped as a
\* note, and the hyphenated word is capitalized as one word.
C17_HyphenatedNameKept ==
    (LineDone /\ parse.line = FlourLine)
        => parse.ret = Return(<<(3 * Scale) \div 2, "CUP", Chars("All-purpose Flour")>>)

\* the line has been parsed
C17_Witness ==
    /\ LineDone
    /\ parse.line = FlourLine
    /\ parse.clauses = <<Chars("sifted")>>
    /\ parse.ret.value[2] = "CUP"

\* a digit directly followed by a fraction character, as a quantity
TwoAndAHalf == <<"2", "U+00BD">>

OilLine == TwoAndAHalf \o Chars(" tbsp olive oil")

\* characters a quantity would leave behind in a name
FractionDebris == GlyphChars \cup DigitChars \cup {"/"}

\* C18: parse_ingredient reads a leading digit followed by a fraction character
\* as one mixed-number quantity and leaves no fraction debris in the name: the
\* line "2" + U+00BD + " tbsp olive oil" gives quantity 2.5, unit "TBSP", name
\* "Olive Oil", and normalize_ingredient_name("olive oil") gives "Olive Oil".
C18_GlyphMixedNumber ==
    /\ (LineDone /\ parse.quantity = TwoAndAHalf)
           => /\ ~parse.ret.raised
              /\ parse.ret.value[1] = (5 * Scale) \div 2
              /\ \A i \in DOMAIN parse.ret.value[3] :
                     parse.ret.value[3][i] \notin FractionDebris
    /\ (LineDone /\ parse.line = OilLine)
           => parse.ret = Return(<<(5 * Scale) \div 2, "TBSP", Chars("Olive Oil")>>)
    /\ (ParseDone /\ parse.fn = "normalize_ingredient_name" /\ parse.name = Chars("olive oil"))
           => parse.ret = Chars("Olive Oil")

\* the line has been parsed to 2.5 TBSP
C18_Witness ==
    /\ LineDone
    /\ parse.line = OilLine
    /\ parse.ret.value[1] = (5 * Scale) \div 2
    /\ parse.ret.value[2] = "TBSP"

\* the clause holds a note keyword
IsNote(clause) == \E kw \in NoteKeywordTexts : ContainsText(kw, LowerText(clause))

CommaCount(cs) == Cardinality({i \in DOMAIN cs : cs[i] = ","})

\* C19: parse_ingredient decides on the text after the last comma only: when
\* that text holds a note keyword the line is cut at the last comma and the
\* earlier commas are kept, and when it holds none no comma content is removed.
\* The name before the clauses holds no comma, so the commas left in the
\* returned name count the clauses kept.
C19_LastCommaDecides ==
    (LineDone /\ parse.name # <<>> /\ ~parse.ret.raised)
        => CommaCount(parse.ret.value[3]) =
               IF parse.clauses # <<>> /\ IsNote(parse.clauses[Len(parse.clauses)])
               THEN Len(parse.clauses) - 1
               ELSE Len(parse.clauses)

(***************************************************************************)
(* Properties of find_ingredient_match                                     *)
(***************************************************************************)
MatchDone == match.pc = "done"

\* the two keys of the lookups
NormalizedLower == LowerText(match.normalized)
RawLower == LowerText(Strip(match.raw_name))

\* the synonym rows and the ingredient ids a key hits, ignoring case
SynonymHits(key) == {s \in db.synonyms : LowerText(s.synonym) = key}
NameHits(key) == {id \in DOMAIN db.ingredients : LowerText(db.ingredients[id]) = key}

\* C20: find_ingredient_match tries three lookups in a fixed order and the
\* first hit decides: a synonym equal to the normalized name gives (its
\* ingredient, "synonym") even when an ingredient of that name exists; else an
\* ingredient named as the normalized name gives (it, "exact"); else, only when
\* normalization changed the string, an ingredient named as the trimmed
\* lowercased raw name gives (it, "exact"); with no hit the result is (None, None).
C20_LookupOrder ==
    MatchDone =>
        IF SynonymHits(NormalizedLower) # {}
        THEN \E s \in SynonymHits(NormalizedLower) :
                 match.ret = Return(<<Some(s.ingredient_id), Some("synonym")>>)
        ELSE IF NameHits(NormalizedLower) # {}
        THEN \E id \in NameHits(NormalizedLower) :
                 match.ret = Return(<<Some(id), Some("exact")>>)
        ELSE IF RawLower # NormalizedLower /\ NameHits(RawLower) # {}
        THEN \E id \in NameHits(RawLower) : match.ret = Return(<<Some(id), Some("exact")>>)
        ELSE match.ret = Return(<<None, None>>)

\* "olive oil" with ingredient 1 named Olive Oil and the synonym "olive oil"
\* of ingredient 2: the synonym decides
C20_Witness ==
    /\ MatchDone
    /\ match.raw_name = Chars("olive oil")
    /\ db.ingredients = <<Chars("Olive Oil"), Chars("Egg")>>
    /\ db.synonyms = {[synonym |-> Chars("olive oil"), ingredient_id |-> 2]}
    /\ match.ret = Return(<<Some(2), Some("synonym")>>)

(***************************************************************************)
(* Properties of normalize_ingredient_name                                 *)
(***************************************************************************)
\* C30: for every key of INGREDIENT_ALIASES, normalize_ingredient_name(key)
\* returns the canonical name the table maps that key to.
C30_AliasKeysResolve ==
    \A p \in INGREDIENT_ALIASES :
        (ParseDone /\ parse.fn = "normalize_ingredient_name" /\ parse.name = Chars(p[1]))
            => parse.ret = Chars(p[2])

(***************************************************************************)
(* Properties of get_ingredient_suggestions                                *)
(***************************************************************************)
SuggestDone == match.pc = "done"

QueryLower == LowerText(match.normalized_name)
NameLower(id) == LowerText(db.ingredients[id])

\* the words a candidate shares with the query
SharedWords(id) == WordSet(QueryLower) \cap WordSet(NameLower(id))

\* the score and the reason the claim gives a candidate
ClaimedScore(id) ==
    IF NameLower(id) = QueryLower THEN 100 * Scale
    ELSE RoundRatio(80 * Cardinality(SharedWords(id)) * Scale, 1,
                    MaxOfTwo(Cardinality(WordSet(QueryLower)),
                             Cardinality(WordSet(NameLower(id)))), DP4)
ClaimedReason(id) == IF NameLower(id) = QueryLower THEN "exact" ELSE "partial"

\* ingredients that are an exact match or share a word
Candidates == {id \in DOMAIN db.ingredients :
                   NameLower(id) = QueryLower \/ SharedWords(id) # {}}

ReturnedIds == {match.ret[i][1] : i \in DOMAIN match.ret}

\* C21: get_ingredient_suggestions returns at most limit entries in
\* non-increasing score order; an exact match ignoring case scores 100 with
\* reason "exact", any other ingredient sharing a word scores
\* 80 x |common| / max(|query words|, |candidate words|) with reason "partial",
\* ingredients sharing no word are absent, no omitted candidate has a higher
\* score than a returned one, and an exact match is first.
C21_RankedSuggestions ==
    SuggestDone =>
        /\ Len(match.ret) <= match.limit
        /\ \A i, j \in DOMAIN match.ret : i < j => match.ret[i][2] >= match.ret[j][2]
        /\ \A i, j \in DOMAIN match.ret : match.ret[i][1] = match.ret[j][1] => i = j
        /\ \A i \in DOMAIN match.ret :
               /\ match.ret[i][1] \in Candidates
               /\ match.ret[i][2] = ClaimedScore(match.ret[i][1])
               /\ match.ret[i][3] = ClaimedReason(match.ret[i][1])
        /\ \A id \in Candidates \ ReturnedIds :
               /\ Len(match.ret) = match.limit
               /\ \A i \in DOMAIN match.ret : ClaimedScore(id) <= match.ret[i][2]
        /\ (match.limit >= 1 /\ \E id \in Candidates : NameLower(id) = QueryLower)
               => match.ret[1][3] = "exact"

\* "olive oil" with limit 1 against Vegetable Oil and Olive Oil: the exact
\* match is returned and the partial one is left out
C21_Witness ==
    /\ SuggestDone
    /\ match.normalized_name = Chars("olive oil")
    /\ match.limit = 1
    /\ db.ingredients = <<Chars("Vegetable Oil"), Chars("Olive Oil")>>
    /\ match.ret = <<<<2, 100 * Scale, "exact">>>>

(***************************************************************************)
(* Properties of the catalog routes                                        *)
(***************************************************************************)
\* C23: starting from a catalog without two names equal ignoring case, after
\* any sequence of ingredient_add, ingredient_edit and recipe_import_save no
\* two Ingredient rows have names that are equal ignoring case.
C23_NamesUniqueIgnoringCase ==
    \A a, b \in DOMAIN db.ingredients :
        LowerText(db.ingredients[a].name) = LowerText(db.ingredients[b].name) => a = b

\* C24: ingredients_cleanup never deletes an ingredient whose is_core flag is
\* set, whether or not it is used in a recipe or is in the pantry, in every
\* catalog the cleanup can be run on.
C24_CleanupKeepsCore ==
    [][web'.route = "ingredients_cleanup" =>
           \A id \in DOMAIN db.ingredients :
               db.ingredients[id].is_core => id \in DOMAIN db'.ingredients]_vars

UnitsOf(pl) ==
    Times(db.recipes[shop.recipe_ids[pl[1]]][pl[2]].quantity,
          MultiplierOf(shop.recipe_ids[pl[1]]))

RECURSIVE SumUnits(_)
SumUnits(S) ==
    IF S = {} THEN 0
    ELSE LET pl == CHOOSE x \in S : TRUE IN UnitsOf(pl) + SumUnits(S \ {pl})

\* ceil(units / pkg_count) on the exact quotient
PackagesCovering(total_units, pkg_count) ==
    LET qr == MulDiv(total_units, Scale, pkg_count)
    IN  IF qr[2] = 0 THEN Ceil(qr[1]) ELSE ((qr[1] \div Scale) + 1) * Scale

\* i is a PACKAGE ingredient priced per EA with a package size, and every
\* requested line of it is in a count unit
CountedPackage(i) ==
    /\ CanonFormula(db.ingredients[i].cost_formula) = "PACKAGE"
    /\ db.ingredients[i].base_unit = "EA"
    /\ db.ingredients[i].pkg_count > 0
    /\ \A pl \in Occurrences(i) :
           IsCountUnit(db.recipes[shop.recipe_ids[pl[1]]][pl[2]].unit)

\* C28: for a PACKAGE ingredient with base unit EA and pkg_count > 0 whose
\* lines are all in count units, the quantity on the shopping list is
\* ceil(total units / pkg_count) whenever that is at least min_purchase,
\* however the units are split over lines and recipes.
C28_WholePackages ==
    ShopDone =>
        \A i \in ItemIds :
            (/\ CountedPackage(i)
             /\ PackagesCovering(SumUnits(Occurrences(i)), db.ingredients[i].pkg_count)
                    >= MinPurchaseOf(i))
            => ItemOf(i).qty =
                   PackagesCovering(SumUnits(Occurrences(i)), db.ingredients[i].pkg_count)

(***************************************************************************)
(* Properties of the meal plan routes                                      *)
(***************************************************************************)
\* number of week-1 rows of the bag B in the slot (day, meal_type)
SlotCopies(B, day, meal_type) ==
    BagCardinality(Rows(B, {m \in BagToSet(B) :
                               m.week = 1 /\ m.day = day /\ m.meal_type = meal_type}))

\* recipes held by the week-1 meals with locked = true
HeldByLocked(d) ==
    {m.recipe_id : m \in {x \in BagToSet(d.meals) : x.week = 1 /\ x.locked}}

\* C26: meal_plan_randomize leaves every locked week-1 meal as it is (same
\* day, meal type, recipe and lock).  Every unlocked week-1 meal is deleted:
\* the table does not tell a deleted row from an equal row created in its
\* place, so this is stated by what is left, an unlocked meal after the request
\* is alone in its slot and is a dessert only if desserts were asked for.  New
\* meals lie only in slots that hold no locked meal, and none of them has a
\* recipe that a locked meal holds.
C26_RandomizeKeepsLocked ==
    [][web'.route = "meal_plan_randomize" =>
          /\ \A m \in BagToSet(db.meals) :
                 (m.week = 1 /\ m.locked) => CopiesIn(m, db'.meals) = CopiesIn(m, db.meals)
          /\ \A m \in BagToSet(db'.meals) :
                 (m.week = 1 /\ ~m.locked) =>
                     /\ SlotCopies(db'.meals, m.day, m.meal_type) = 1
                     /\ SlotCopies(Rows(db.meals, {x \in BagToSet(db.meals) : x.locked}),
                                   m.day, m.meal_type) = 0
                     /\ m.recipe_id # None
                     /\ m.recipe_id \notin HeldByLocked(db)
                     /\ (m.meal_type = "Dessert" => web'.include_dessert)]_vars

\* meal_plan_randomize has run over a plan with a locked meal: the locked meal
\* stands, an unlocked meal was placed on another day, and a day is left
\* without a dinner
C26_Witness ==
    /\ web.pc = "done"
    /\ web.route = "meal_plan_randomize"
    /\ \E m, n \in BagToSet(db.meals) :
           /\ m.week = 1 /\ m.locked /\ m.recipe_id # None
           /\ n.week = 1 /\ ~n.locked /\ n.day # m.day
    /\ \E day \in Days : SlotCopies(db.meals, day, "Dinner") = 0

(***************************************************************************)
(* Properties of the stored shopping list                                  *)
(***************************************************************************)
\* the items of a stored list the user typed in, in the order of their ids
ManualItems(items) == SelectSeq(items, LAMBDA it : it.source = "manual")

\* the items of a stored list that a generation stored
GeneratedItems(items) == SelectSeq(items, LAMBDA it : it.source \in {"recipe", "mealplan"})

\* the source a route stores its items under
SourceOf(route) == IF route = "shopping_add_from_recipes" THEN "recipe" ELSE "mealplan"

\* the request of this step came with no recipe selected, or found no meal
\* in the week-1 plan
NothingToGenerate ==
    \/ web'.route = "shopping_add_from_recipes" /\ web'.recipe_ids = <<>>
    \/ web'.route = "shopping_from_mealplan"
           /\ \A m \in BagToSet(db.meals) : m.week # 1

\* C27: a served shopping_add_from_recipes with a non-empty selection, or
\* shopping_from_mealplan with a non-empty plan, leaves the 'manual' items as
\* they are, leaves no 'recipe' or 'mealplan' item of the old list, and stores
\* exactly one item per line of the list it generated; with an empty selection
\* or an empty plan the stored list is left as it is.
C27_RegenerateKeepsManual ==
    [][(/\ web'.route \in {"shopping_add_from_recipes", "shopping_from_mealplan"}
        /\ web'.status = 302) =>
          IF NothingToGenerate THEN db'.shopping_items = db.shopping_items
          ELSE /\ ManualItems(db'.shopping_items) = ManualItems(db.shopping_items)
               /\ Len(db'.shopping_items)
                      = Len(ManualItems(db.shopping_items)) + Len(web'.items)
               /\ Len(GeneratedItems(db'.shopping_items)) = Len(web'.items)
               /\ \A k \in 1..Len(web'.items) :
                      LET it == GeneratedItems(db'.shopping_items)[k]
                      IN  /\ it.source = SourceOf(web'.route)
                          /\ it.ingredient_id = Some(web'.items[k].ingredient_id)
                          /\ it.name = Chars(web'.items[k].name)
                          /\ it.cost = web'.items[k].cost]_vars

\* the list was regenerated from the meal plan around an item typed in by
\* the user: the manual item stands next to the items of the plan
C27_Witness ==
    /\ web.pc = "done"
    /\ web.route = "shopping_from_mealplan"
    /\ web.status = 302
    /\ Len(web.items) >= 2
    /\ Len(ManualItems(db.shopping_items)) = 1
    /\ \E k \in 1..Len(db.shopping_items) : db.shopping_items[k].source = "mealplan"

\* the recipes of the week-1 plan
PlanRecipeIds ==
    {m.recipe_id[1] : m \in {x \in BagToSet(db.meals) : x.week = 1 /\ x.recipe_id # None}}

\* C29: the recipe_ids shopping_from_mealplan passes to generate_shopping_list
\* hold every recipe of the week-1 plan exactly once and nothing else, so the
\* list is the one generated from the distinct recipes: a recipe planned on
\* several days adds its quantities once.
C29_EachRecipeOnce ==
    (/\ web.pc = "done"
     /\ web.route = "shopping_from_mealplan"
     /\ web.status = 302
     /\ \E m \in BagToSet(db.meals) : m.week = 1) =>
        /\ \A r \in PlanRecipeIds :
               Cardinality({k \in 1..Len(web.recipe_ids) : web.recipe_ids[k] = r}) = 1
        /\ \A k \in 1..Len(web.recipe_ids) : web.recipe_ids[k] \in PlanRecipeIds
        /\ \A p \in Shuffles(PlanRecipeIds) :
               web.items = GenerateShoppingList(db, p, <<>>).items

\* a list generated from a plan in which a recipe is planned on two days
C29_Witness ==
    /\ web.pc = "done"
    /\ web.route = "shopping_from_mealplan"
    /\ web.status = 302
    /\ web.items # <<>>
    /\ \E m, n \in BagToSet(db.meals) :
           /\ m.week = 1 /\ n.week = 1
           /\ m.day # n.day
           /\ m.recipe_id # None
           /\ m.recipe_id = n.recipe_id
           /\ db.recipes[m.recipe_id[1]] # <<>>

(***************************************************************************)
(* Properties of the readers                                               *)
(***************************************************************************)
\* C22: no step of find_ingredient_match, get_ingredient_suggestions or
\* generate_shopping_list changes the ingredient, synonym, recipe,
\* recipe-ingredient, pantry, use-up or shopping-item store, and a generation
\* that ran while another one ran over the same catalog returns what
\* generate_shopping_list returns for its arguments when run alone.
C22_ReadersOnlyRead ==
    [][/\ db' = db
       /\ \A t \in Threads :
              shop'[t].pc = "done" =>
                  shop'[t].ret = GenerateShoppingList(db', shop'[t].recipe_ids,
                                                      shop'[t].multipliers)]_vars

\* one generation has returned a non-empty list while another, called with
\* different arguments, is between two of its queries, and
\* find_ingredient_match has found an ingredient in the same catalog
C22_Witness ==
    /\ shop[1].pc = "done"
    /\ shop[2].pc = "loop"
    /\ shop[2].next > 1
    /\ shop[1].ret.items # <<>>
    /\ shop[2].acc.consolidated # <<>>
    /\ shop[1].recipe_ids # shop[2].recipe_ids
    /\ match.pc = "done"
    /\ match.fn = "find_ingredient_match"
    /\ match.ret # Return(<<None, None>>)

====
